---- MODULE Spec2Model ----
(***************************************************************************)
(* Classification core of the YouTube Music extension: the search cache    *)
(* with its pending-state deduplication (search-cache.js), the storage     *)
(* manager (storage.js), the matcher and evaluator, and the resolution     *)
(* orchestration of the service worker.                                    *)
(*                                                                         *)
(* Every asynchronous function is split at its awaits: one action per      *)
(* storage read or write taking effect, followed by the synchronous        *)
(* continuation that runs on its result.                                   *)
(***************************************************************************)
EXTENDS Integers, Sequences, FiniteSets, TLC

\* ------------------------------------------------------------------------
\* Program constants (milliseconds)
\* ------------------------------------------------------------------------
CACHE_TTL == 24 * 60 * 60 * 1000

PENDING_TIMEOUT == 60 * 1000

\* ------------------------------------------------------------------------
\* Bounds of the model
\* ------------------------------------------------------------------------
\* number of clock advances in one behaviour
MaxTicks == 2

\* number of SearchCache calls the clients of the cache issue in total
MaxCalls == 3

\* concurrent clients of the SearchCache API
Clients == {1, 2}

\* cache keys, strings as defined below; <<>> is the empty query the API
\* rejects
Queries == {<<>>, <<"a">>, <<"b">>}

\* amounts by which the clock advances between two steps
Deltas == {1, PENDING_TIMEOUT, CACHE_TTL}

VARIABLES
  now,            \* Date.now()
  ticks,          \* clock advances so far
  search_cache,   \* chrome.storage.local 'search_cache': query -> entry
  call,           \* client -> the SearchCache call it has in progress
  ncalls,         \* calls issued so far
  hist,           \* client -> what is remembered of its calls so far
  artists,        \* chrome.storage.local 'artists': list of artist records
  songs,          \* chrome.storage.local 'songs': list of song records
  ev,             \* the last Evaluator.evaluateSong call and its decision
  saved,          \* the addArtist calls made one after the other so far
  currentSongState, \* the service worker's currentSongState
  lastSkipTime,   \* the service worker's lastSkipTime
  sent,           \* enforcement commands sent to the tab so far
  timers,         \* block retries queued with setTimeout
  job,            \* SONG_CHANGED message -> its evaluation in progress
  run,            \* orchestration run -> its position and captured values
  nevents,        \* SONG_CHANGED messages received so far
  nruns,          \* orchestration runs started so far
  tab,            \* what the content script of the tab has done so far
  norm,           \* the artist string being varied and its normalizations
  page,           \* the player page and the content script's enforcement
  picked          \* the candidates handed to searchArtist and its choice

cacheVars == <<now, ticks, search_cache, call, ncalls, hist>>

storeVars == <<artists, songs, saved>>

histVars == <<hist>>

\* the page of the player and the strings entered
pageVars == <<tab, norm, page, picked>>

workerVars ==
  <<currentSongState, lastSkipTime, sent, timers, job, run, nevents, nruns,
    pageVars>>

vars ==
  <<now, ticks, search_cache, call, ncalls, hist, artists, songs, ev, saved,
    currentSongState, lastSkipTime, sent, timers, job, run, nevents, nruns,
    tab, norm, page, picked>>

\* everything but the clock and the page
offPage ==
  <<ticks, search_cache, call, ncalls, hist, artists, songs, ev, saved,
    currentSongState, lastSkipTime, sent, timers, job, run, nevents, nruns,
    tab, norm, picked>>

Min(a, b) == IF a < b THEN a ELSE b

\* ------------------------------------------------------------------------
\* Cache entries
\* ------------------------------------------------------------------------
\* `undefined` in the stored map, `null` as a result of get
NoEntry == [state |-> "none", timestamp |-> 0, info |-> ""]

Entry(s, t, i) == [state |-> s, timestamp |-> t, info |-> i]

\* DEFAULTS[SEARCH_CACHE] = {}
EmptyCache == [q \in Queries |-> NoEntry]

\* SearchCache.get, lines 428-456, applied to the stored entry at time t
GetView_NoPendingTimeout(entry, t) ==
  IF entry.state = "none" THEN NoEntry
  ELSE IF entry.state = "pending" THEN entry
  ELSE IF entry.state = "resolved"
    THEN IF t - entry.timestamp > CACHE_TTL THEN NoEntry ELSE entry
  ELSE entry

GetView_TtlInclusive(entry, t) ==
  IF entry.state = "none" THEN NoEntry
  ELSE IF entry.state = "pending"
    THEN IF t - entry.timestamp > PENDING_TIMEOUT
         THEN Entry("failed", entry.timestamp, "Search timed out")
         ELSE entry
  ELSE IF entry.state = "resolved"
    THEN IF t - entry.timestamp >= CACHE_TTL THEN NoEntry ELSE entry
  ELSE entry

GetView(entry, t) ==
  IF entry.state = "none" THEN NoEntry
  ELSE IF entry.state = "pending"
    THEN IF t - entry.timestamp > PENDING_TIMEOUT
         THEN Entry("failed", entry.timestamp, "Search timed out")
         ELSE entry
  ELSE IF entry.state = "resolved"
    THEN IF t - entry.timestamp > CACHE_TTL THEN NoEntry ELSE entry
  ELSE entry

\* SearchCache.setPending lines 473-477: the view blocks a new search
Blocks_IgnoreResolved(existing) ==
  existing.state = "pending"

Blocks_IgnorePending(existing) ==
  existing.state = "resolved"

Blocks_FailedToo(existing) ==
  existing.state = "resolved" \/ existing.state = "pending"
    \/ existing.state = "failed"

Blocks(existing) ==
  existing.state = "resolved" \/ existing.state = "pending"

\* ------------------------------------------------------------------------
\* A SearchCache call in progress
\* ------------------------------------------------------------------------
IdleCall ==
  [op |-> "idle", q |-> <<>>, pc |-> "done",
   entry |-> NoEntry,       \* the entry handed to updateSearchCacheEntry
   snap |-> EmptyCache,     \* the map read by updateSearchCacheEntry
   view |-> NoEntry,        \* what get returned
   ret |-> FALSE]           \* what setPending returned

InFlight(c) == call[c].pc # "done"

NewCall(op, q, pc, entry) ==
  [IdleCall EXCEPT !.op = op, !.q = q, !.pc = pc, !.entry = entry]

\* what a call leaves behind once it has returned
Returned(rec) ==
  [rec EXCEPT !.pc = "done", !.entry = NoEntry, !.snap = EmptyCache]

\* SearchCache.get(query), up to its await
StartGet(q) ==
  NewCall("get", q, IF q = <<>> THEN "done" ELSE "get_read", NoEntry)

\* SearchCache.setPending(query), up to its first await
StartSetPending(q) ==
  NewCall("setPending", q, IF q = <<>> THEN "done" ELSE "get_read", NoEntry)

\* SearchCache.setResolved(query, data), up to its first await
StartSetResolved(q) ==
  NewCall("setResolved", q, IF q = <<>> THEN "done" ELSE "upd_read",
          IF q = <<>> THEN NoEntry ELSE Entry("resolved", now, "data"))

\* SearchCache.setFailed(query, error), up to its first await
StartSetFailed(q) ==
  NewCall("setFailed", q, IF q = <<>> THEN "done" ELSE "upd_read",
          IF q = <<>> THEN NoEntry ELSE Entry("failed", now, "error"))

\* the read of getSearchCache inside get takes effect and get runs to its
\* return; setPending continues to its call of updateSearchCacheEntry
GetRead(c) ==
  /\ call[c].pc = "get_read"
  /\ LET view == GetView(search_cache[call[c].q], now)
     IN  call' = [call EXCEPT ![c] =
           IF call[c].op = "get"
             THEN Returned([call[c] EXCEPT !.view = view])
           ELSE IF Blocks(view)
             THEN Returned([call[c] EXCEPT !.ret = FALSE])
           ELSE [call[c] EXCEPT !.pc = "upd_read",
                                !.entry = Entry("pending", now, "")]]
  /\ UNCHANGED <<now, ticks, search_cache, ncalls>>

\* StorageManager.updateSearchCacheEntry: the read of the stored map
UpdRead(c) ==
  /\ call[c].pc = "upd_read"
  /\ call' = [call EXCEPT ![c].snap = search_cache, ![c].pc = "upd_write"]
  /\ UNCHANGED <<now, ticks, search_cache, ncalls>>

\* StorageManager.updateSearchCacheEntry: cache[query] = entry and the set
\* of the whole map take effect; the caller resumes
UpdWrite(c) ==
  /\ call[c].pc = "upd_write"
  /\ search_cache' = [call[c].snap EXCEPT ![call[c].q] = call[c].entry]
  /\ call' = [call EXCEPT ![c] =
        Returned([call[c] EXCEPT !.ret = (call[c].op = "setPending")])]
  /\ UNCHANGED <<now, ticks, ncalls>>

\* time passes
Tick(d) ==
  /\ ticks < MaxTicks
  /\ now' = now + d
  /\ ticks' = ticks + 1
  /\ UNCHANGED <<search_cache, call, ncalls>>

\* ------------------------------------------------------------------------
\* Clients calling the SearchCache API, and what is remembered of the calls
\* ------------------------------------------------------------------------
NoPrev == [op |-> "idle", q |-> <<>>, ret |-> FALSE]

NoHist ==
  [racing |-> FALSE,        \* the current call was issued while the other
                            \* client's setPending of the same query was in
                            \* flight
   quiet |-> TRUE,          \* no other client wrote since this client's
                            \* previous call, a setPending, returned
   idle |-> 0,              \* time since the call returned, counted up
                            \* to PENDING_TIMEOUT
   soon |-> FALSE,          \* the current call was issued less than
                            \* PENDING_TIMEOUT after the previous returned
   prev |-> NoPrev]         \* this client's previous call and its result,
                            \* when that was a setPending

\* a client other than c has a setPending of q in flight
Racing(c, op, q) ==
  \E d \in Clients \ {c} :
    /\ InFlight(d)
    /\ call[d].op = "setPending" /\ op = "setPending" /\ call[d].q = q

CanCall(c) == ~InFlight(c) /\ ncalls < MaxCalls

\* client c issues the call rec
Issue(c, rec) ==
  /\ CanCall(c)
  /\ call' = [call EXCEPT ![c] = rec]
  /\ ncalls' = ncalls + 1
  /\ hist' = [d \in Clients |->
        IF d = c
          THEN [racing |-> Racing(c, rec.op, rec.q),
                quiet |-> hist[c].quiet,
                idle |-> 0,
                soon |-> (hist[c].idle < PENDING_TIMEOUT),
                prev |-> IF call[c].op = "setPending"
                           THEN [op |-> call[c].op, q |-> call[c].q,
                                 ret |-> call[c].ret]
                           ELSE NoPrev]
          ELSE [hist[d] EXCEPT !.racing = FALSE]]
  /\ UNCHANGED <<now, ticks, search_cache>>

CallGet(c, q) == Issue(c, StartGet(q))

CallSetPending(c, q) == Issue(c, StartSetPending(q))

CallSetResolved(c, q) == Issue(c, StartSetResolved(q))

CallSetFailed(c, q) == Issue(c, StartSetFailed(q))

\* the steps of a client's call
ClientGetRead(c) ==
  /\ GetRead(c)
  /\ hist' = IF call'[c].pc = "done"
               THEN [hist EXCEPT ![c].quiet = TRUE, ![c].idle = 0]
               ELSE hist

ClientUpdRead(c) ==
  /\ UpdRead(c)
  /\ UNCHANGED hist

ClientUpdWrite(c) ==
  /\ UpdWrite(c)
  /\ hist' = [d \in Clients |->
        IF d = c
          THEN [hist[c] EXCEPT !.quiet = TRUE, !.idle = 0]
          ELSE [hist[d] EXCEPT !.quiet = @ /\ call[d].op # "setPending"]]

ClientTick(d) ==
  /\ Tick(d)
  /\ hist' = [c \in Clients |->
        IF call[c].op = "setPending" /\ ~InFlight(c)
          THEN [hist[c] EXCEPT !.idle = Min(@ + d, PENDING_TIMEOUT)]
          ELSE hist[c]]


\* ------------------------------------------------------------------------
\* Strings
\*
\* A string is a sequence of tokens: a space, a punctuation sign, or a word
\* (a name such as "A", a marker such as "feat").  Words of a string are
\* separated by spaces or punctuation.
\* ------------------------------------------------------------------------
FeatWords == {"feat", "ft", "featuring"}

NonWord == {" ", "&", ",", "(", ")", "[", "]", "."}

\* String.prototype.toLowerCase on one token
Lower(tok) ==
  CASE tok = "A" -> "a"
    [] tok = "B" -> "b"
    [] tok = "C" -> "c"
    [] tok = "T" -> "t"
    [] tok = "Feat" -> "feat"
    [] tok = "FT" -> "ft"
    [] tok = "And" -> "and"
    [] tok = "RU" -> "ru"
    [] tok = "UA" -> "ua"
    [] tok = "Russia" -> "russia"
    [] tok = "RUSSIA" -> "russia"
    [] tok = "Yandex" -> "yandex"
    [] tok = "Topic" -> "topic"
    [] OTHER -> tok

toLowerCase(s) == [i \in 1..Len(s) |-> Lower(s[i])]

\* first position from i on holding a token of set S, or 0
RECURSIVE IndexIn(_, _, _)
IndexIn(s, S, i) ==
  IF i > Len(s) THEN 0
  ELSE IF s[i] \in S THEN i
  ELSE IndexIn(s, S, i + 1)

\* first position from i on that holds no space (Len(s) + 1 when none)
RECURSIVE SkipSpaces(_, _)
SkipSpaces(s, i) ==
  IF i <= Len(s) /\ s[i] = " " THEN SkipSpaces(s, i + 1) ELSE i

\* position after a marker feat|ft|featuring with its optional dot at i
AfterMarker(s, i) ==
  IF i + 1 <= Len(s) /\ s[i + 1] = "." THEN i + 2 ELSE i + 1

\* s.replace(/\s+/g, ' ')
RECURSIVE CollapseSpaces(_, _)
CollapseSpaces(s, i) ==
  IF i > Len(s) THEN <<>>
  ELSE IF s[i] = " " THEN <<" ">> \o CollapseSpaces(s, SkipSpaces(s, i))
  ELSE <<s[i]>> \o CollapseSpaces(s, i + 1)

\* String.prototype.trim
RECURSIVE trim(_)
trim(s) ==
  IF s = <<>> THEN s
  ELSE IF Head(s) = " " THEN trim(Tail(s))
  ELSE IF s[Len(s)] = " " THEN trim(SubSeq(s, 1, Len(s) - 1))
  ELSE s

\* last position of a match of /\((?:feat|ft|featuring)\.?\s+[^)]+\)/ that
\* starts at i, or 0
ParenFeatEnd(s, i) ==
  IF i + 1 > Len(s) \/ s[i] # "(" \/ s[i + 1] \notin FeatWords THEN 0
  ELSE LET k == AfterMarker(s, i + 1)
           close == IndexIn(s, {")"}, k)
       IN  IF k <= Len(s) /\ s[k] = " " /\ close >= k + 2 THEN close ELSE 0

\* normalized.replace(/\((?:feat|ft|featuring)\.?\s+[^)]+\)/g, '')
RECURSIVE RemoveParenFeat(_, _)
RemoveParenFeat(s, i) ==
  IF i > Len(s) THEN <<>>
  ELSE IF ParenFeatEnd(s, i) # 0
    THEN RemoveParenFeat(s, ParenFeatEnd(s, i) + 1)
  ELSE <<s[i]>> \o RemoveParenFeat(s, i + 1)

\* a marker stands at i as a word of its own (the \b on both sides)
MarkerAt(s, i) ==
  /\ s[i] \in FeatWords
  /\ i = 1 \/ s[i - 1] \in NonWord
  /\ i = Len(s) \/ s[i + 1] \in NonWord

\* normalized.replace(/\b(feat\.?|ft\.?|featuring)\b.*$/g, '')
RECURSIVE CutAtMarker(_, _)
CutAtMarker(s, i) ==
  IF i > Len(s) THEN s
  ELSE IF MarkerAt(s, i) THEN SubSeq(s, 1, i - 1)
  ELSE CutAtMarker(s, i + 1)

\* normalized.replace(/\s+(&|and)\s+/g, ' ')
RECURSIVE JoinConjunctions(_, _)
JoinConjunctions(s, i) ==
  IF i > Len(s) THEN <<>>
  ELSE LET j == SkipSpaces(s, i)
       IN  IF /\ s[i] = " "
              /\ j + 1 <= Len(s)
              /\ s[j] \in {"&", "and"}
              /\ s[j + 1] = " "
             THEN <<" ">> \o JoinConjunctions(s, SkipSpaces(s, j + 1))
           ELSE <<s[i]>> \o JoinConjunctions(s, i + 1)

\* NormalizationUtils.normalizeArtist
normalizeArtist(artist) ==
  IF artist = <<>> THEN <<>>
  ELSE LET lowered == toLowerCase(artist)
           noParen == RemoveParenFeat(lowered, 1)
           noFeat == CutAtMarker(noParen, 1)
           joined == JoinConjunctions(noFeat, 1)
       IN  trim(CollapseSpaces(joined, 1))

\* last position of a match of
\* /[\(\[]\s*(?:feat|ft|featuring)\.?\s+[^)\]]+[\)\]]/ that starts at i, or 0
BracketFeatEnd(s, i) ==
  IF i > Len(s) \/ s[i] \notin {"(", "["} THEN 0
  ELSE LET m == SkipSpaces(s, i + 1)
       IN  IF m > Len(s) \/ s[m] \notin FeatWords THEN 0
           ELSE LET k == AfterMarker(s, m)
                    close == IndexIn(s, {")", "]"}, k)
                IN  IF k <= Len(s) /\ s[k] = " " /\ close >= k + 2
                      THEN close ELSE 0

\* normalized.replace(/[\(\[]\s*(?:feat|ft|featuring)\.?\s+[^)\]]+[\)\]]/g, '')
RECURSIVE RemoveBracketFeat(_, _)
RemoveBracketFeat(s, i) ==
  IF i > Len(s) THEN <<>>
  ELSE IF BracketFeatEnd(s, i) # 0
    THEN RemoveBracketFeat(s, BracketFeatEnd(s, i) + 1)
  ELSE <<s[i]>> \o RemoveBracketFeat(s, i + 1)

\* a match of /\s+(?:feat|ft|featuring)\.?\s+.*$/ starts at i
TrailingFeatAt(s, i) ==
  /\ s[i] = " "
  /\ LET m == SkipSpaces(s, i)
     IN  /\ m <= Len(s) /\ s[m] \in FeatWords
         /\ AfterMarker(s, m) <= Len(s) /\ s[AfterMarker(s, m)] = " "

\* normalized.replace(/\s+(?:feat|ft|featuring)\.?\s+.*$/g, '')
RECURSIVE CutTrailingFeat(_, _)
CutTrailingFeat(s, i) ==
  IF i > Len(s) THEN s
  ELSE IF TrailingFeatAt(s, i) THEN SubSeq(s, 1, i - 1)
  ELSE CutTrailingFeat(s, i + 1)

\* NormalizationUtils.normalizeTitle
normalizeTitle(title) ==
  IF title = <<>> THEN <<>>
  ELSE LET lowered == toLowerCase(title)
           noBracket == RemoveBracketFeat(lowered, 1)
           noFeat == CutTrailingFeat(noBracket, 1)
       IN  trim(CollapseSpaces(noFeat, 1))

\* the separators of a multi-artist credit
ArtistSeparators == {"&", ","}

\* the raw pieces of s between separators, from position i on, in order
RECURSIVE Pieces(_, _)
Pieces(s, i) ==
  LET j == IndexIn(s, ArtistSeparators, i)
  IN  IF j = 0 THEN <<SubSeq(s, i, Len(s))>>
      ELSE <<SubSeq(s, i, j - 1)>> \o Pieces(s, j + 1)

RECURSIVE DropEmpty(_)
DropEmpty(ss) ==
  IF ss = <<>> THEN <<>>
  ELSE IF Head(ss) = <<>> THEN DropEmpty(Tail(ss))
  ELSE <<Head(ss)>> \o DropEmpty(Tail(ss))

\* NormalizationUtils.splitArtists: the individually normalized artists of a
\* credit such as "A & B" or "A, B", in order
splitArtists(raw) ==
  IF raw = <<>> THEN <<>>
  ELSE LET ps == Pieces(raw, 1)
       IN  DropEmpty([i \in 1..Len(ps) |-> normalizeArtist(ps[i])])

\* letters of the Ukrainian alphabet that Russian does not have
UkrainianLetters == {"uk_i", "uk_yi", "uk_ye", "uk_g"}

\* NormalizationUtils.isUkrainianString
isUkrainianString(s) ==
  \E i \in 1..Len(s) : s[i] \in UkrainianLetters


\* ------------------------------------------------------------------------
\* Stored artists and songs; the matcher
\* ------------------------------------------------------------------------
\* no record (`undefined`)
NoArtist ==
  [id |-> 0, name |-> <<>>, country |-> "none", isRussian |-> "undefined",
   aliases |-> <<>>]

\* find / findIndex: the first position at which hits holds TRUE, or 0
FirstIndex(hits) ==
  IF \E i \in 1..Len(hits) : hits[i]
    THEN CHOOSE i \in 1..Len(hits) :
           /\ hits[i]
           /\ \A j \in 1..(i - 1) : ~hits[j]
    ELSE 0

\* Array.prototype.includes
Includes(list, x) == \E i \in 1..Len(list) : list[i] = x

\* appends to acc the elements of list that acc does not hold, in order
RECURSIVE PushMissing(_, _)
PushMissing(acc, list) ==
  IF list = <<>> THEN acc
  ELSE PushMissing(IF Includes(acc, Head(list)) THEN acc
                   ELSE Append(acc, Head(list)),
                   Tail(list))

\* StorageManager.addArtist on the list it has read: the list it holds after
\* lines 79-115 and whether it calls saveArtists
AddArtist_AlwaysPush(list, artist) ==
  [list |-> Append(list, artist), write |-> TRUE]

AddArtist_KeepAliases(list, artist) ==
  LET SameName(a) == normalizeArtist(a.name) = normalizeArtist(artist.name)
      existingIndex == FirstIndex([i \in 1..Len(list) |-> SameName(list[i])])
  IN  IF existingIndex # 0
        THEN [list |-> list, write |-> FALSE]
        ELSE [list |-> Append(list, artist), write |-> TRUE]

AddArtist_ReplaceRecord(list, artist) ==
  LET SameName(a) == normalizeArtist(a.name) = normalizeArtist(artist.name)
      existingIndex == FirstIndex([i \in 1..Len(list) |-> SameName(list[i])])
  IN  IF existingIndex # 0
        THEN LET existing == list[existingIndex]
                 merged == PushMissing(existing.aliases, artist.aliases)
             IN  [list |-> [list EXCEPT ![existingIndex] =
                              [artist EXCEPT !.aliases = merged]],
                  write |-> merged # existing.aliases]
        ELSE [list |-> Append(list, artist), write |-> TRUE]

AddArtist(list, artist) ==
  LET SameName(a) == normalizeArtist(a.name) = normalizeArtist(artist.name)
      existingIndex == FirstIndex([i \in 1..Len(list) |-> SameName(list[i])])
  IN  IF existingIndex # 0
        THEN LET existing == list[existingIndex]
                 merged == PushMissing(existing.aliases, artist.aliases)
             IN  [list |-> [list EXCEPT ![existingIndex].aliases = merged],
                  write |-> merged # existing.aliases]
        ELSE [list |-> Append(list, artist), write |-> TRUE]

\* matcher.js checkSongMatch on the lists read from storage
checkSongMatch(title, artist, songList, artistList) ==
  IF title = <<>> \/ artist = <<>> THEN FALSE
  ELSE IF songList = <<>> THEN FALSE
  ELSE LET nTitle == normalizeTitle(title)
           nArtist == normalizeArtist(artist)
           TitleHit(song) == normalizeTitle(song.title) = nTitle
           Exact(song) ==
             /\ TitleHit(song)
             /\ LET Owner(a) == a.id = song.artistId
                    k == FirstIndex([i \in 1..Len(artistList) |->
                                       Owner(artistList[i])])
                IN  k # 0 /\ normalizeArtist(artistList[k].name) = nArtist
       IN  /\ FirstIndex([i \in 1..Len(songList) |-> TitleHit(songList[i])])
                 # 0
           /\ FirstIndex([i \in 1..Len(songList) |-> Exact(songList[i])]) # 0

\* matcher.js checkArtistMatch on the list read from storage
checkArtistMatch(artist, artistList) ==
  LET Same(a) == normalizeArtist(a.name) = normalizeArtist(artist)
      k == FirstIndex([i \in 1..Len(artistList) |-> Same(artistList[i])])
  IN  IF artist = <<>> \/ artistList = <<>> \/ k = 0
        THEN [match |-> FALSE, artist |-> NoArtist]
        ELSE [match |-> TRUE, artist |-> artistList[k]]

\* ------------------------------------------------------------------------
\* The evaluator
\* ------------------------------------------------------------------------
\* evaluator.js lines 72-76
isRussian_CountryCodeOnly(a) ==
  a.country = "RU"

isRussian(a) ==
  \/ a.country = "RU"
  \/ a.country # "none" /\ Lower(a.country) = "russia"
  \/ a.isRussian = "true"
  \/ a.isRussian = "'true'"

\* the three lists evaluateSong fills, lines 63-65
NoArtists == [blocked |-> <<>>, safe |-> <<>>, unknown |-> <<>>]

\* evaluator.js lines 68-87, on the list read by this checkArtistMatch
Classify_UnknownFirst(acc, artistName, artistList) ==
  LET m == checkArtistMatch(artistName, artistList)
  IN  IF m.match
        THEN IF isRussian(m.artist)
               THEN [acc EXCEPT !.blocked = Append(@, m.artist)]
               ELSE [acc EXCEPT !.safe = Append(@, m.artist)]
        ELSE [acc EXCEPT !.unknown = <<artistName>> \o @]

\* a mutant: an artist that matches no record counts as blocked
Classify_UnknownBlocked(acc, artistName, artistList) ==
  LET m == checkArtistMatch(artistName, artistList)
  IN  IF m.match
        THEN IF isRussian(m.artist)
               THEN [acc EXCEPT !.blocked = Append(@, m.artist)]
               ELSE [acc EXCEPT !.safe = Append(@, m.artist)]
        ELSE [acc EXCEPT !.blocked =
                Append(@, [NoArtist EXCEPT !.name = artistName])]

Classify(acc, artistName, artistList) ==
  LET m == checkArtistMatch(artistName, artistList)
  IN  IF m.match
        THEN IF isRussian(m.artist)
               THEN [acc EXCEPT !.blocked = Append(@, m.artist)]
               ELSE [acc EXCEPT !.safe = Append(@, m.artist)]
        ELSE [acc EXCEPT !.unknown = Append(@, artistName)]

Decision(block, mode, step, reason, search, acc) ==
  [shouldBlock |-> block, blockMode |-> mode, step |-> step,
   reason |-> reason, artistsToSearch |-> search,
   blocked |-> acc.blocked, safe |-> acc.safe, unknown |-> acc.unknown]

\* no decision at hand
NoDecision == Decision(FALSE, "none", "none", "", <<>>, NoArtists)

\* a promise that settled: rejected, or resolved with a value
Resolved(value) == [rejects |-> FALSE, value |-> value]

\* evaluator.js lines 96-127
Decide(acc) ==
  IF acc.blocked # <<>>
    THEN IF acc.safe = <<>> /\ acc.unknown = <<>>
           THEN Decision(TRUE, "STRICT", "ARTIST", "All artists are Russian",
                         <<>>, acc)
           ELSE Decision(TRUE, "STRICT", "ARTIST",
                         "Partial match (Force Dislike)", <<>>, acc)
  ELSE IF acc.unknown # <<>>
    THEN Decision(FALSE, "none", "PENDING_SEARCH", "Pending identification",
                  acc.unknown, NoArtists)
  ELSE Decision(FALSE, "none", "ARTIST", "All artists are safe", <<>>,
                NoArtists)

\* evaluator.js lines 57-61
IndividualArtists(artistString) ==
  IF splitArtists(artistString) = <<>>
    THEN <<normalizeArtist(artistString)>>
    ELSE splitArtists(artistString)

RECURSIVE ClassifyAll(_, _, _)
ClassifyAll(acc, names, artistList) ==
  IF names = <<>> THEN acc
  ELSE ClassifyAll(Classify(acc, Head(names), artistList), Tail(names),
                   artistList)

\* Evaluator.evaluateSong with every read of one evaluation seeing the same
\* stored lists
evaluateSong_NoValidation(title, artistString, isKnownUkrainian, songList, artistList) ==
  IF checkSongMatch(title, artistString, songList, artistList)
    THEN Decision(FALSE, "none", "SONG", "Song found in database", <<>>,
                  NoArtists)
  ELSE IF isUkrainianString(title) \/ isKnownUkrainian
    THEN Decision(FALSE, "none", "LANGUAGE", "Song title is in Ukrainian",
                  <<>>, NoArtists)
  ELSE Decide(ClassifyAll(NoArtists, IndividualArtists(artistString),
                          artistList))

evaluateSong_LanguageBeforeSong(title, artistString, isKnownUkrainian, songList, artistList) ==
  IF title = <<>> \/ artistString = <<>>
    THEN Decision(FALSE, "none", "Validation", "Invalid input", <<>>,
                  NoArtists)
  ELSE IF isUkrainianString(title) \/ isKnownUkrainian
    THEN Decision(FALSE, "none", "LANGUAGE", "Song title is in Ukrainian",
                  <<>>, NoArtists)
  ELSE IF checkSongMatch(title, artistString, songList, artistList)
    THEN Decision(FALSE, "none", "SONG", "Song found in database", <<>>,
                  NoArtists)
  ELSE Decide(ClassifyAll(NoArtists, IndividualArtists(artistString),
                          artistList))

evaluateSong_LanguageAfterArtists(title, artistString, isKnownUkrainian, songList, artistList) ==
  IF title = <<>> \/ artistString = <<>>
    THEN Decision(FALSE, "none", "Validation", "Invalid input", <<>>,
                  NoArtists)
  ELSE IF checkSongMatch(title, artistString, songList, artistList)
    THEN Decision(FALSE, "none", "SONG", "Song found in database", <<>>,
                  NoArtists)
  ELSE LET d == Decide(ClassifyAll(NoArtists,
                                   IndividualArtists(artistString),
                                   artistList))
       IN  IF d.shouldBlock THEN d
           ELSE IF isUkrainianString(title) \/ isKnownUkrainian
             THEN Decision(FALSE, "none", "LANGUAGE",
                           "Song title is in Ukrainian", <<>>, NoArtists)
           ELSE d

evaluateSong(title, artistString, isKnownUkrainian, songList, artistList) ==
  IF title = <<>> \/ artistString = <<>>
    THEN Decision(FALSE, "none", "Validation", "Invalid input", <<>>,
                  NoArtists)
  ELSE IF checkSongMatch(title, artistString, songList, artistList)
    THEN Decision(FALSE, "none", "SONG", "Song found in database", <<>>,
                  NoArtists)
  ELSE IF isUkrainianString(title) \/ isKnownUkrainian
    THEN Decision(FALSE, "none", "LANGUAGE", "Song title is in Ukrainian",
                  <<>>, NoArtists)
  ELSE Decide(ClassifyAll(NoArtists, IndividualArtists(artistString),
                          artistList))

\* ------------------------------------------------------------------------
\* The evaluator over a knowledgebase built by sequential calls
\* ------------------------------------------------------------------------
\* stored artists and songs in one behaviour
MaxArtists == 2

MaxSongs == 1

ArtistNames == {<<"A">>, <<"a">>, <<"B">>}

\* country and isRussian of a stored record ("none": the field is absent)
Origins ==
  {[country |-> "RU", isRussian |-> "false"],
   [country |-> "Russia", isRussian |-> "false"],
   [country |-> "none", isRussian |-> "true"],
   [country |-> "UA", isRussian |-> "false"],
   [country |-> "none", isRussian |-> "undefined"]}

AliasNames == {<<"a">>, <<"x">>}

Titles == {<<>>, <<"T">>, <<"uk_i">>}

\* titles of the stored songs
SongTitles == {<<"T">>, <<"uk_i">>}

ArtistStrings ==
  {<<>>, <<"A">>, <<"A", " ", "&", " ", "B">>, <<"B", ",", " ", "C">>,
   <<"a", " ", "feat", ".", " ", "B">>}

NoEval ==
  [pc |-> "idle", title |-> <<>>, artistString |-> <<>>,
   isKnownUkrainian |-> FALSE,
   readFailed |-> FALSE,     \* a storage read of the call has rejected
   decision |-> Decision(FALSE, "none", "none", "", <<>>, NoArtists)]

\* a sequential StorageManager.addArtist(record)
StoreArtist(name, origin, alias) ==
  /\ Len(artists) < MaxArtists
  /\ artists' = AddArtist(artists,
                  [id |-> Len(artists) + 1, name |-> name,
                   country |-> origin.country, isRussian |-> origin.isRussian,
                   aliases |-> <<alias>>]).list
  /\ ev' = NoEval
  /\ UNCHANGED <<cacheVars, songs, saved>>

\* a sequential StorageManager.addSong(song)
StoreSong(title, artistId) ==
  /\ Len(songs) < MaxSongs
  /\ songs' = Append(songs, [id |-> Len(songs) + 1, artistId |-> artistId,
                              title |-> title])
  /\ ev' = NoEval
  /\ UNCHANGED <<cacheVars, artists, saved>>

\* a mutant: a song decided by the language stage is stored as known
Evaluate_LearnsSong(title, artistString, isKnownUkrainian) ==
  /\ \E d \in {evaluateSong(title, artistString, isKnownUkrainian, songs,
                             artists)} :
       /\ ev' = [pc |-> "done", title |-> title,
                 artistString |-> artistString,
                 isKnownUkrainian |-> isKnownUkrainian, readFailed |-> FALSE,
                 decision |-> d]
       /\ songs' = IF d.step = "LANGUAGE"
                     THEN Append(songs, [id |-> Len(songs) + 1, artistId |-> 0,
                                         title |-> title])
                     ELSE songs
  /\ UNCHANGED <<cacheVars, artists, saved>>

\* Evaluator.evaluateSong(title, artistString, songDetails), run to its end
Evaluate(title, artistString, isKnownUkrainian) ==
  /\ ev' = [pc |-> "done", title |-> title, artistString |-> artistString,
            isKnownUkrainian |-> isKnownUkrainian, readFailed |-> FALSE,
            decision |-> evaluateSong(title, artistString, isKnownUkrainian,
                                      songs, artists)]
  /\ UNCHANGED <<cacheVars, storeVars>>

\* ------------------------------------------------------------------------
\* The evaluator when chrome.storage.local.get rejects
\* ------------------------------------------------------------------------
\* the storage reads one evaluateSong call makes: getSongs in checkSongMatch,
\* getArtists there if a stored title matches, then one getArtists for each
\* checkArtistMatch of the artist loop
Reads(title, artistString, isKnownUkrainian, songList, artistList) ==
  IF title = <<>> \/ artistString = <<>> THEN 0
  ELSE LET titleMatch ==
             \E i \in 1..Len(songList) :
               normalizeTitle(songList[i].title) = normalizeTitle(title)
           inMatcher == IF titleMatch THEN 2 ELSE 1
       IN  IF \/ checkSongMatch(title, artistString, songList, artistList)
              \/ isUkrainianString(title)
              \/ isKnownUkrainian
             THEN inMatcher
             ELSE inMatcher + Len(IndividualArtists(artistString))

\* positions of the read that rejects, among the reads of one call
ReadPositions == 1..4

\* evaluateSong when the storage read at position failAt rejects: neither
\* StorageManager, SongMatcher nor Evaluator catches, so the call rejects
evaluateSongFailing(title, artistString, isKnownUkrainian, songList, artistList, failAt) ==
  IF failAt <= Reads(title, artistString, isKnownUkrainian, songList,
                     artistList)
    THEN [rejects |-> TRUE, value |-> NoDecision]
    ELSE Resolved(evaluateSong(title, artistString, isKnownUkrainian,
                               songList, artistList))

\* Evaluator.evaluateSong is called and settles, the read at position failAt
\* rejecting if the call gets that far
EvaluateFailing(title, artistString, isKnownUkrainian, failAt) ==
  /\ \E p \in {evaluateSongFailing(title, artistString, isKnownUkrainian,
                                    songs, artists, failAt)} :
       ev' = [pc |-> IF p.rejects THEN "rejected" ELSE "done",
              title |-> title, artistString |-> artistString,
              isKnownUkrainian |-> isKnownUkrainian,
              readFailed |-> p.rejects, decision |-> p.value]
  /\ UNCHANGED <<cacheVars, storeVars>>

\* ------------------------------------------------------------------------
\* StorageManager.addArtist called one call after the other
\* ------------------------------------------------------------------------
\* addArtist calls in one behaviour
MaxStores == 3

\* names of the records handed to addArtist: two that normalize to the same
\* string and one that does not
UpsertNames == {<<"A">>, <<"a">>, <<"B">>}

\* alias lists of the records handed to addArtist
AliasLists == {<<>>, <<"a">>, <<"x", "a">>, <<"x", "x">>}

\* the record of the id-th call: records of different names differ in
\* country and isRussian
UpsertRecord(id, name, aliases) ==
  [id |-> id, name |-> name,
   country |-> IF name = <<"A">> THEN "RU"
               ELSE IF name = <<"a">> THEN "UA" ELSE "none",
   isRussian |-> IF name = <<"A">> THEN "true"
                 ELSE IF name = <<"a">> THEN "false" ELSE "undefined",
   aliases |-> aliases]

\* StorageManager.addArtist(artist), from its call to its return with no
\* other call in between
Upsert(artist) ==
  /\ Len(saved) < MaxStores
  /\ LET res == AddArtist(artists, artist)
     IN  /\ artists' = IF res.write THEN res.list ELSE artists
         /\ saved' = Append(saved, [artist |-> artist, before |-> artists,
                                    wrote |-> res.write])
  /\ UNCHANGED <<cacheVars, songs, ev, workerVars>>

\* ------------------------------------------------------------------------
\* The service worker: SONG_CHANGED and the resolution of unknown artists
\*
\* Every await of the handler is a step of its own; the synchronous code
\* that follows an await, and the `then` callbacks it resolves, belong to
\* the step.  The channel id handed to YouTubeAPI.getArtistDetails only
\* selects what the external service answers; that answer is an input here.
\* ------------------------------------------------------------------------
SKIP_COOLDOWN == 1000

\* Date.now() when the worker starts: later than any cooldown after 0
Epoch == SKIP_COOLDOWN + 1

\* SONG_CHANGED messages in one behaviour
MaxEvents == 3

\* delays in one behaviour of the worker
MaxDelays == 1

\* a delay longer than every timeout of the worker and of the cache
Delays == {CACHE_TTL + 1}

\* orchestration runs in one behaviour: one SearchCache client each
MaxRuns == Cardinality(Clients)

PlayedTitles == {<<"T">>}

PlayedArtists == {<<"A">>, <<"A", " ", "&", " ", "B">>}

NoSong == [title |-> <<>>, artist |-> <<>>, status |-> "unknown"]

\* what the chain getArtistDetails -> searchArtist hands to the result
\* handler: a result object, or null
NoResult ==
  [canonicalName |-> <<>>, country |-> "none", isRussian |-> "undefined",
   isSongUkrainian |-> FALSE]

\* what YouTubeAPI.getArtistDetails resolves with: null (found is FALSE),
\* or the fields of the channel that the orchestration reads
NoDetails ==
  [found |-> FALSE, title |-> <<>>, hasVkLink |-> FALSE,
   hasYandexLink |-> FALSE, hasRussianPhone |-> FALSE]

\* words of a channel description that hold 'vk.com' or 'vk.ru'
VkWords == {"vk.com", "vk.ru"}

\* lower-case words that hold 'yandex' or 'dzen.ru'
YandexWords == {"yandex", "dzen.ru"}

\* words matched by the regular expression of the Russian phone numbers
PhoneWords == {"+7 900 123-45-67"}

HasWord(description, words) ==
  \E i \in 1..Len(description) : description[i] \in words

\* youtube-api.js lines 281-325: the channel is the first item
processChannelData(items) ==
  IF items = <<>> THEN NoDetails
  ELSE LET description == items[1].description
       IN  [found |-> TRUE, title |-> items[1].title,
            hasVkLink |-> HasWord(description, VkWords),
            hasYandexLink |-> HasWord(toLowerCase(description), YandexWords),
            hasRussianPhone |-> HasWord(description, PhoneWords)]

\* what the YouTube Data API does for one lookup: whether a key is
\* configured, how the channel search and the channel request end, and the
\* items of the channel
Lookup(key, search, channel, items) ==
  [key |-> key, search |-> search, channel |-> channel, items |-> items]

\* a mutant: the errors of the API are passed on
getArtistDetails_Rethrows(lookup) ==
  IF ~lookup.key \/ lookup.search = "none" THEN Resolved(NoDetails)
  ELSE IF lookup.search = "throws" \/ lookup.channel = "throws"
    THEN [rejects |-> TRUE, value |-> NoDetails]
  ELSE Resolved([processChannelData(lookup.items) EXCEPT !.found = TRUE])

\* YouTubeAPI.getArtistDetails without a channel id, youtube-api.js lines
\* 158-202: the details spread into a new object, which is not null even
\* when the channel has no items
getArtistDetails(lookup) ==
  IF ~lookup.key THEN Resolved(NoDetails)
  ELSE IF lookup.search = "throws" THEN Resolved(NoDetails)
  ELSE IF lookup.search = "none" THEN Resolved(NoDetails)
  ELSE IF lookup.channel = "throws" THEN Resolved(NoDetails)
  ELSE Resolved([processChannelData(lookup.items) EXCEPT !.found = TRUE])

\* the condition of the hard block, part_006 line 182
IsHardBlock(ytDetails) ==
  /\ ytDetails.found
  /\ \/ ytDetails.hasVkLink
     \/ ytDetails.hasYandexLink
     \/ ytDetails.hasRussianPhone

\* the result of the hard block, part_006 lines 184-188
HardBlock(q, ytDetails) ==
  [canonicalName |-> IF ytDetails.title # <<>> THEN ytDetails.title ELSE q,
   country |-> "RU", isRussian |-> "true", isSongUkrainian |-> FALSE]

\* details the lookups of the worker end with: none, or those of a channel
\* named as the artist searched for whose description links to vk.com
PlayedDetails(q) ==
  {NoDetails,
   [NoDetails EXCEPT !.found = TRUE, !.title = q, !.hasVkLink = TRUE]}

\* answers of MistralAPI.searchArtist for query q
Answers(q) ==
  {NoResult,
   [canonicalName |-> q, country |-> "RU", isRussian |-> "true",
    isSongUkrainian |-> FALSE],
   [canonicalName |-> q, country |-> "UA", isRussian |-> "false",
    isSongUkrainian |-> FALSE],
   [canonicalName |-> <<"x">>, country |-> "RU", isRussian |-> "true",
    isSongUkrainian |-> FALSE]}

IdleJob ==
  [pc |-> "idle", title |-> <<>>, artist |-> <<>>, idx |-> 0,
   acc |-> NoArtists]

IdleRun ==
  [pc |-> "idle", q |-> <<>>, searchTitle |-> <<>>,
   noMatch |-> FALSE,        \* checkArtistMatch found no match
   started |-> "unknown",    \* what setPending returned
   ytCalled |-> FALSE,       \* YouTubeAPI.getArtistDetails was called
   mistralCalled |-> FALSE,  \* MistralAPI.searchArtist was called
   ytDetails |-> NoDetails,  \* the details searchArtist was called with
   newArtist |-> NoArtist, isSongUkrainian |-> FALSE,
   list |-> <<>>,            \* the list addArtist is about to save
   evTitle |-> <<>>, evArtist |-> <<>>, evKnown |-> FALSE,
   idx |-> 0, acc |-> NoArtists]

\* what a run keeps once it has ended
Ended(rec, pc) ==
  [IdleRun EXCEPT !.pc = pc, !.q = rec.q, !.noMatch = rec.noMatch,
                  !.started = rec.started, !.ytCalled = rec.ytCalled,
                  !.mistralCalled = rec.mistralCalled]

\* one await of Evaluator.evaluateSong: the stages before the artist loop
\* on the first step, then one checkArtistMatch per step
EvalStep(title, artistString, known, idx, acc) ==
  LET early == \/ title = <<>> \/ artistString = <<>>
               \/ checkSongMatch(title, artistString, songs, artists)
               \/ isUkrainianString(title) \/ known
      names == IndividualArtists(artistString)
      acc2 == Classify(acc, names[idx], artists)
  IN  IF idx = 1 /\ early
        THEN [done |-> TRUE,
              decision |-> evaluateSong(title, artistString, known, songs,
                                        artists),
              acc |-> NoArtists]
      ELSE IF idx = Len(names)
        THEN [done |-> TRUE, decision |-> Decide(acc2), acc |-> acc2]
      ELSE [done |-> FALSE, decision |-> NoDecision, acc |-> acc2]

\* part_006 lines 68-76 and 224-236
Status(decision) ==
  IF decision.shouldBlock THEN "blocked"
  ELSE IF decision.step = "PENDING_SEARCH" THEN "pending"
  ELSE "safe"

\* part_006 lines 98-107 and 249-255
Command(decision) ==
  IF decision.blockMode = "STRICT" \/ decision.blockMode = "none"
    THEN "DISLIKE_SONG"
    ELSE "SKIP_SONG"

\* runs the evaluations in progress may still start
Reserved ==
  LET Need(j) == IF job[j].pc = "idle" THEN 0
                 ELSE Len(IndividualArtists(job[j].artist))
      RECURSIVE Sum(_)
      Sum(j) == IF j = 0 THEN 0 ELSE Need(j) + Sum(j - 1)
  IN  Sum(MaxEvents)

\* onMessage SONG_CHANGED up to the call of evaluateSong
SongChanged(title, artist) ==
  /\ nevents < MaxEvents
  /\ nruns + Reserved + Len(IndividualArtists(artist)) <= MaxRuns
  /\ nevents' = nevents + 1
  /\ currentSongState' =
       [title |-> title, artist |-> artist, status |-> "pending"]
  /\ job' = [job EXCEPT ![nevents + 1] =
               [IdleJob EXCEPT !.pc = "eval", !.title = title,
                               !.artist = artist, !.idx = 1]]
  /\ UNCHANGED <<pageVars, cacheVars, storeVars, ev, lastSkipTime, sent, timers, run,
                 nruns>>

\* a mutant: a blocking decision inside the cooldown is dropped
Enforce_DropInCooldown(j, decision) ==
  IF ~decision.shouldBlock
    THEN UNCHANGED <<lastSkipTime, sent, timers>>
  ELSE IF now - lastSkipTime > SKIP_COOLDOWN
    THEN /\ lastSkipTime' = now
         /\ sent' = sent \cup {Command(decision)}
         /\ UNCHANGED timers
  ELSE UNCHANGED <<lastSkipTime, sent, timers>>

\* the enforcement of a blocking decision, part_006 lines 89-129
Enforce(j, decision) ==
  IF ~decision.shouldBlock
    THEN UNCHANGED <<lastSkipTime, sent, timers>>
  ELSE IF now - lastSkipTime > SKIP_COOLDOWN
    THEN /\ lastSkipTime' = now
         /\ sent' = sent \cup {Command(decision)}
         /\ UNCHANGED timers
  ELSE /\ timers' = timers \cup
            {[title |-> job[j].title, artist |-> job[j].artist,
              due |-> now + (SKIP_COOLDOWN - (now - lastSkipTime) + 100)]}
       /\ UNCHANGED <<lastSkipTime, sent>>

\* the forEach over artistsToSearch, up to each checkArtistMatch call
StartRuns(search) ==
  /\ run' = [r \in Clients |->
       IF r > nruns /\ r <= nruns + Len(search)
         THEN [IdleRun EXCEPT !.pc = "check", !.q = search[r - nruns],
                              !.searchTitle = currentSongState.title]
         ELSE run[r]]
  /\ nruns' = nruns + Len(search)

\* evaluateSong of a SONG_CHANGED message advances by one await; when it
\* returns, the handler of the decision runs
JobStep(j) ==
  /\ job[j].pc = "eval"
  /\ \E e \in {EvalStep(job[j].title, job[j].artist, FALSE, job[j].idx,
                        job[j].acc)} :
         IF e.done
           THEN /\ job' = [job EXCEPT ![j] = IdleJob]
                /\ currentSongState' =
                     [currentSongState EXCEPT !.status = Status(e.decision)]
                /\ Enforce(j, e.decision)
                /\ StartRuns(IF e.decision.step = "PENDING_SEARCH"
                               THEN e.decision.artistsToSearch ELSE <<>>)
           ELSE /\ job' = [job EXCEPT ![j].idx = @ + 1, ![j].acc = e.acc]
                /\ UNCHANGED <<currentSongState, lastSkipTime, sent, timers,
                               run, nruns>>
  /\ UNCHANGED <<pageVars, cacheVars, storeVars, nevents>>

\* the retry queued during the cooldown fires, part_006 lines 111-126
RetryFires(t) ==
  /\ t \in timers
  /\ now >= t.due
  /\ timers' = timers \ {t}
  /\ IF currentSongState.title = t.title /\ currentSongState.artist = t.artist
       THEN /\ lastSkipTime' = now
            /\ sent' = sent \cup {"BLOCK_CURRENT_SONG"}
       ELSE UNCHANGED <<lastSkipTime, sent>>
  /\ UNCHANGED <<pageVars, cacheVars, storeVars, ev, currentSongState, job, run,
                 nevents, nruns>>

\* what the run does once setPending has returned, part_006 lines 146-147
\* and 269-271
AfterSetPending_IgnoreStarted(started) ==
  "yt"

AfterSetPending(started) ==
  IF started THEN "yt" ELSE "skipped"

\* the run resumes with what setPending returned
Resume(rec, started) ==
  IF AfterSetPending(started) = "yt"
    THEN [rec EXCEPT !.pc = "yt", !.ytCalled = TRUE,
                     !.started = IF started THEN "true" ELSE "false"]
    ELSE Ended([rec EXCEPT !.started = IF started THEN "true" ELSE "false"],
               "skipped")

\* checkArtistMatch(artistToSearch) returns; without a match the run calls
\* SearchCache.setPending(artistToSearch)
RunCheck(r) ==
  /\ run[r].pc = "check"
  /\ IF checkArtistMatch(run[r].q, artists).match
       THEN /\ run' = [run EXCEPT ![r] = Ended(run[r], "known")]
            /\ UNCHANGED call
     ELSE IF run[r].q = <<>>
       THEN /\ run' = [run EXCEPT ![r] =
                         Resume([run[r] EXCEPT !.noMatch = TRUE], FALSE)]
            /\ call' = [call EXCEPT ![r] =
                 StartSetPending(run[r].q)]
     ELSE /\ run' = [run EXCEPT ![r].pc = "setPending", ![r].noMatch = TRUE]
          /\ call' = [call EXCEPT ![r] =
               StartSetPending(run[r].q)]
  /\ UNCHANGED <<pageVars, now, ticks, search_cache, ncalls, hist, storeVars, ev,
                 currentSongState, lastSkipTime, sent, timers, job, nevents,
                 nruns>>

\* a step of the run's SearchCache call; the run resumes when its
\* setPending returns
RunGetRead(r) ==
  /\ GetRead(r)
  /\ run' = IF call'[r].pc = "done"
              THEN [run EXCEPT ![r] = Resume(run[r], call'[r].ret)]
              ELSE run
  /\ UNCHANGED <<pageVars, hist, storeVars, ev, currentSongState, lastSkipTime, sent,
                 timers, job, nevents, nruns>>

RunUpdRead(r) ==
  /\ UpdRead(r)
  /\ UNCHANGED <<hist, storeVars, ev, workerVars>>

RunUpdWrite(r) ==
  /\ UpdWrite(r)
  /\ run' = IF call[r].op = "setPending"
              THEN [run EXCEPT ![r] = Resume(run[r], call'[r].ret)]
              ELSE run
  /\ UNCHANGED <<pageVars, hist, storeVars, ev, currentSongState, lastSkipTime, sent,
                 timers, job, nevents, nruns>>

\* a mutant: any result object counts, with or without canonicalName
OnResult_AnyObject(r, result) ==
  IF result # NoResult
    THEN /\ call' = [call EXCEPT ![r] =
              StartSetResolved(run[r].q)]
         /\ run' = [run EXCEPT ![r].pc = "addArtist",
              ![r].ytDetails = NoDetails,
              ![r].newArtist =
                 [id |-> r, name |-> result.canonicalName,
                  country |-> result.country, isRussian |-> result.isRussian,
                  aliases |-> <<run[r].q>>],
              ![r].isSongUkrainian = result.isSongUkrainian]
    ELSE /\ call' = [call EXCEPT ![r] =
              StartSetFailed(run[r].q)]
         /\ run' = [run EXCEPT ![r] = Ended(run[r], "failed")]

\* the handler of the resolution result, part_006 lines 194-263, up to the
\* first await of StorageManager.addArtist; setResolved and setFailed are
\* not awaited
OnResult(r, result) ==
  IF result.canonicalName # <<>>
    THEN /\ call' = [call EXCEPT ![r] =
              StartSetResolved(run[r].q)]
         /\ run' = [run EXCEPT ![r].pc = "addArtist",
              ![r].ytDetails = NoDetails,
              ![r].newArtist =
                 [id |-> r, name |-> result.canonicalName,
                  country |-> result.country, isRussian |-> result.isRussian,
                  aliases |-> <<run[r].q>>],
              ![r].isSongUkrainian = result.isSongUkrainian]
    ELSE /\ call' = [call EXCEPT ![r] =
              StartSetFailed(run[r].q)]
         /\ run' = [run EXCEPT ![r] = Ended(run[r], "failed")]

\* a mutant: the error is logged only
OnError_LogOnly(r) ==
  /\ call' = call
  /\ run' = [run EXCEPT ![r] = Ended(run[r], "failed")]

\* the catch of part_006 lines 265-268
OnError(r) ==
  /\ call' = [call EXCEPT ![r] =
        StartSetFailed(run[r].q)]
  /\ run' = [run EXCEPT ![r] = Ended(run[r], "failed")]

\* a mutant: only a link to VK is a signal
YtReturns_VkOnly(r, ytDetails) ==
  /\ run[r].pc = "yt"
  /\ IF ytDetails.found /\ ytDetails.hasVkLink
       THEN OnResult(r, HardBlock(run[r].q, ytDetails))
       ELSE /\ run' = [run EXCEPT ![r].pc = "mistral",
                                  ![r].mistralCalled = TRUE,
                                  ![r].ytDetails = ytDetails]
            /\ UNCHANGED call
  /\ UNCHANGED <<pageVars, now, ticks, search_cache, ncalls, hist, storeVars, ev,
                 currentSongState, lastSkipTime, sent, timers, job, nevents,
                 nruns>>

\* YouTubeAPI.getArtistDetails resolves, part_006 lines 177-193: details
\* with a signal of a hard block give the result at once; details without
\* one, or null, go to MistralAPI.searchArtist with the artist searched for
\* and the title captured at the start
YtReturns(r, ytDetails) ==
  /\ run[r].pc = "yt"
  /\ IF IsHardBlock(ytDetails)
       THEN OnResult(r, HardBlock(run[r].q, ytDetails))
       ELSE /\ run' = [run EXCEPT ![r].pc = "mistral",
                                  ![r].mistralCalled = TRUE,
                                  ![r].ytDetails = ytDetails]
            /\ UNCHANGED call
  /\ UNCHANGED <<pageVars, now, ticks, search_cache, ncalls, hist, storeVars, ev,
                 currentSongState, lastSkipTime, sent, timers, job, nevents,
                 nruns>>

\* MistralAPI.searchArtist settles with a result
MistralReturns(r, result) ==
  /\ run[r].pc = "mistral"
  /\ OnResult(r, result)
  /\ UNCHANGED <<pageVars, now, ticks, search_cache, ncalls, hist, storeVars, ev,
                 currentSongState, lastSkipTime, sent, timers, job, nevents,
                 nruns>>

\* MistralAPI.searchArtist rejects
MistralFails(r) ==
  /\ run[r].pc = "mistral"
  /\ OnError(r)
  /\ UNCHANGED <<pageVars, now, ticks, search_cache, ncalls, hist, storeVars, ev,
                 currentSongState, lastSkipTime, sent, timers, job, nevents,
                 nruns>>

\* ------------------------------------------------------------------------
\* The two external services of a resolution
\* ------------------------------------------------------------------------
\* what the Mistral API does for one request: how the request ends, the
\* object parsed from the content, and its 'analysis' array if it has one
Reply(kind, parsed, hasAnalysis, analysis) ==
  [kind |-> kind, parsed |-> parsed, hasAnalysis |-> hasAnalysis,
   analysis |-> analysis]

\* a result object without canonicalName
NoName ==
  [canonicalName |-> <<>>, country |-> "RU", isRussian |-> "true",
   isSongUkrainian |-> FALSE]

StartsWith(s, prefix) ==
  /\ Len(prefix) <= Len(s)
  /\ SubSeq(s, 1, Len(prefix)) = prefix

\* a mutant: a name that starts with the target goes before its topic
\* channel
BestMatch_PrefixBeforeTopic(artistName, candidates) ==
  LET target == trim(toLowerCase(artistName))
      name(i) == toLowerCase(candidates[i].canonicalName)
      exact == [i \in 1..Len(candidates) |-> name(i) = target]
      starts == [i \in 1..Len(candidates) |-> StartsWith(name(i), target)]
  IN  IF FirstIndex(exact) # 0 THEN candidates[FirstIndex(exact)]
      ELSE IF FirstIndex(starts) # 0 THEN candidates[FirstIndex(starts)]
      ELSE candidates[1]

\* the candidate chosen from an 'analysis' array, part_004 lines 143-169
BestMatch(artistName, candidates) ==
  LET target == trim(toLowerCase(artistName))
      name(i) == toLowerCase(candidates[i].canonicalName)
      exact == [i \in 1..Len(candidates) |-> name(i) = target]
      topic == [i \in 1..Len(candidates) |->
                  name(i) = target \o <<" ", "-", " ", "topic">>]
      starts == [i \in 1..Len(candidates) |-> StartsWith(name(i), target)]
  IN  IF FirstIndex(exact) # 0 THEN candidates[FirstIndex(exact)]
      ELSE IF FirstIndex(topic) # 0 THEN candidates[FirstIndex(topic)]
      ELSE IF FirstIndex(starts) # 0 THEN candidates[FirstIndex(starts)]
      ELSE candidates[1]

\* MistralAPI.searchArtist, part_004 lines 14-180: a request that fails or
\* is answered with an error status rejects; no choices, or content that
\* does not parse, give null
searchArtist(artistName, reply) ==
  IF artistName = <<>> THEN Resolved(NoResult)
  ELSE IF reply.kind \in {"network_error", "not_ok"}
    THEN [rejects |-> TRUE, value |-> NoResult]
  ELSE IF reply.kind \in {"no_choices", "unparseable"}
    THEN Resolved(NoResult)
  ELSE IF reply.hasAnalysis /\ reply.analysis # <<>>
    THEN Resolved(BestMatch(artistName, reply.analysis))
  ELSE Resolved(reply.parsed)

\* titles played while resolutions are watched: playback moves on from one
\* to the other
ResolveTitles == {<<"T">>, <<"U">>}

\* lookups of the YouTube Data API for query q
ResolveLookups(q) ==
  {Lookup(FALSE, "none", "throws", <<>>),
   Lookup(TRUE, "throws", "throws", <<>>),
   Lookup(TRUE, "none", "throws", <<>>),
   Lookup(TRUE, "channel", "throws", <<>>),
   Lookup(TRUE, "channel", "items", <<>>)} \cup
  {Lookup(TRUE, "channel", "items", <<[title |-> t, description |-> d]>>) :
     t \in {q, <<>>},
     d \in {<<"site.ua">>, <<"vk.com">>, <<"Yandex">>,
            <<"+7 900 123-45-67">>}}

\* replies of the Mistral API for query q
ResolveReplies(q) ==
  LET RU == [canonicalName |-> q, country |-> "RU", isRussian |-> "true",
             isSongUkrainian |-> FALSE]
      UA == [canonicalName |-> q, country |-> "UA", isRussian |-> "false",
             isSongUkrainian |-> FALSE]
  IN  {Reply(k, NoResult, FALSE, <<>>) :
         k \in {"network_error", "not_ok", "no_choices", "unparseable"}} \cup
      {Reply("content", p, FALSE, <<>>) : p \in {NoName, RU, UA}} \cup
      {Reply("content", NoName, TRUE, a) :
         a \in {<<>>, <<NoName>>, <<[RU EXCEPT !.canonicalName = <<"x">>],
                                   UA>>}}

\* YouTubeAPI.getArtistDetails settles for one lookup; a rejection would go
\* to the catch of part_006 lines 265-268
YtSettles(r, lookup) ==
  /\ run[r].pc = "yt"
  /\ \E p \in {getArtistDetails(lookup)} :
       IF p.rejects
         THEN /\ OnError(r)
              /\ UNCHANGED <<pageVars, now, ticks, search_cache, ncalls, hist,
                             storeVars, ev, currentSongState, lastSkipTime,
                             sent, timers, job, nevents, nruns>>
         ELSE YtReturns(r, p.value)

\* MistralAPI.searchArtist settles for one reply
MistralSettles(r, reply) ==
  /\ run[r].pc = "mistral"
  /\ \E p \in {searchArtist(run[r].q, reply)} :
       IF p.rejects THEN MistralFails(r) ELSE MistralReturns(r, p.value)

\* addArtist has returned: the re-evaluation of the current song is called,
\* part_006 lines 213-220
ReEvaluate(rec) ==
  [rec EXCEPT !.pc = "reevaluate", !.list = <<>>,
              !.evTitle = currentSongState.title,
              !.evArtist = currentSongState.artist,
              !.evKnown = IF currentSongState.title = rec.searchTitle
                            THEN rec.isSongUkrainian ELSE FALSE,
              !.idx = 1, !.acc = NoArtists]

\* StorageManager.addArtist: getArtists returns and the list is updated in
\* memory
AddRead(r) ==
  /\ run[r].pc = "addArtist"
  /\ LET res == AddArtist(artists, run[r].newArtist)
     IN  run' = [run EXCEPT ![r] =
           IF res.write
             THEN [run[r] EXCEPT !.pc = "saveArtists", !.list = res.list]
             ELSE ReEvaluate(run[r])]
  /\ UNCHANGED <<pageVars, cacheVars, storeVars, ev, currentSongState, lastSkipTime,
                 sent, timers, job, nevents, nruns>>

\* StorageManager.addArtist: saveArtists takes effect
AddWrite(r) ==
  /\ run[r].pc = "saveArtists"
  /\ artists' = run[r].list
  /\ run' = [run EXCEPT ![r] = ReEvaluate(run[r])]
  /\ UNCHANGED <<pageVars, cacheVars, songs, saved, currentSongState, lastSkipTime,
                 sent, timers, job, nevents, nruns>>

\* the re-evaluation advances by one await; when it returns, its handler
\* runs, part_006 lines 221-258 (a tab of the player is open)
ReEvalStep(r) ==
  /\ run[r].pc = "reevaluate"
  /\ \E e \in {EvalStep(run[r].evTitle, run[r].evArtist, run[r].evKnown,
                        run[r].idx, run[r].acc)} :
         IF e.done
           THEN /\ run' = [run EXCEPT ![r] = Ended(run[r], "added")]
                /\ currentSongState' =
                     [currentSongState EXCEPT !.status = Status(e.decision)]
                /\ sent' = IF e.decision.shouldBlock
                             THEN sent \cup {Command(e.decision)}
                             ELSE sent
           ELSE /\ run' = [run EXCEPT ![r].idx = @ + 1, ![r].acc = e.acc]
                /\ UNCHANGED <<currentSongState, sent>>
  /\ UNCHANGED <<pageVars, cacheVars, storeVars, lastSkipTime, timers, job,
                 nevents, nruns>>

\* time passes in the worker
Delay(d) ==
  /\ ticks < MaxDelays
  /\ Tick(d)
  /\ UNCHANGED <<hist, storeVars, ev, workerVars>>

\* ------------------------------------------------------------------------
\* The content script of the tab (PlayerController)
\*
\* The player bar is there and its buttons answer clicks; whether the song
\* playing is disliked already, and whether the player moves on by itself
\* after a dislike, are inputs.
\* ------------------------------------------------------------------------
IdleTab ==
  [handled |-> {},        \* commands the listener has handled
   disliked |-> FALSE,    \* the dislike button was clicked or found active
   skipped |-> FALSE]     \* the next button was clicked

\* handleDislikeCommand, content.js lines 50-102 and 132-244: the loop ends
\* at the first dislikeSong that succeeds, which skips only a song that
\* was disliked already
handleDislikeCommand(t, already) ==
  IF already
    THEN [t EXCEPT !.disliked = TRUE, !.skipped = TRUE]
    ELSE [t EXCEPT !.disliked = TRUE]

\* handleSkipCommand, content.js lines 104-120
handleSkipCommand(t) == [t EXCEPT !.skipped = TRUE]

\* blockCurrentSong, content.js lines 257-288: dislike, then skip unless the
\* title has changed meanwhile
blockCurrentSong(t, already, moved) ==
  LET d == handleDislikeCommand(t, already)
  IN  IF moved THEN d ELSE [d EXCEPT !.skipped = TRUE]

\* the listener of the content script handles a command sent by the
\* worker, content.js lines 15-47
TabHandles(command, already, moved) ==
  /\ command \in sent \ tab.handled
  /\ tab' = [(CASE command = "DISLIKE_SONG" ->
                     handleDislikeCommand(tab, already)
                [] command = "SKIP_SONG" -> handleSkipCommand(tab)
                [] command = "BLOCK_CURRENT_SONG" ->
                     blockCurrentSong(tab, already, moved))
               EXCEPT !.handled = @ \cup {command}]
  /\ UNCHANGED <<cacheVars, storeVars, ev, currentSongState, lastSkipTime,
                 sent, timers, job, run, nevents, nruns, norm, page,
                 picked>>

\* ------------------------------------------------------------------------
\* The dislike enforcement of the content script (PlayerController)
\*
\* page holds what the player bar shows (the title, whether the dislike
\* button is pressed), the clicks the page has not shown yet, the shared
\* enforcementState and every enforceDislikeLoop chain started so far.
\* Whether the buttons are there and enabled when looked for is an input.
\* ------------------------------------------------------------------------
\* content.js line 90
ENFORCE_TIMEOUT == 60000

\* content.js line 98
RETRY_DELAY == 1500

\* commands handled in one behaviour: one chain each
MaxCommands == 2

\* clock advances of the page in one behaviour
MaxPageTicks == 2

\* times the player moves to another song in one behaviour
MaxSongEnds == 1

PageDelays == {RETRY_DELAY, ENFORCE_TIMEOUT}

PageTitles == {<<"T">>, <<"U">>}

IdleLoop ==
  [pc |-> "idle",          \* idle, verify, skip, wait or done
   due |-> 0,              \* when the retry queued with setTimeout is due
   title |-> <<>>,         \* the title playing when the chain started
   started |-> 0]          \* Date.now() when the chain started

IdlePage ==
  [title |-> <<"T">>, pressed |-> FALSE, queued |-> 0, clicks |-> 0,
   nextClicked |-> FALSE,
   enforcementState |-> [active |-> FALSE, title |-> <<>>, startTime |-> 0],
   loop |-> [l \in 1..MaxCommands |-> IdleLoop],
   isBlocking |-> FALSE,
   block |-> [pc |-> "idle", title |-> <<>>],
   ncommands |-> 0, nticks |-> 0, nends |-> 0]

\* enforceDislikeLoop returns without a retry, lines 74, 84, 92:
\* enforcementState.active = false
Deactivate(p, l) ==
  [p EXCEPT !.enforcementState.active = FALSE, !.loop[l].pc = "done"]

\* enforceDislikeLoop after a failed attempt at time t, lines 88-101
AfterFailure(p, l, t) ==
  IF t - p.enforcementState.startTime > ENFORCE_TIMEOUT
    THEN Deactivate(p, l)
    ELSE [p EXCEPT !.loop[l].pc = "wait", !.loop[l].due = t + RETRY_DELAY]

\* skipSong, lines 295-318: the next button is clicked when found
skipSong(p, found) ==
  IF found THEN [p EXCEPT !.nextClicked = TRUE] ELSE p

\* enforceDislikeLoop from its start up to its first await at time t, lines
\* 65-80, with dislikeSong up to its first await, lines 132-218: the
\* dislike button is there and enabled (avail), the next button is there
\* (found)
Enforce_Iteration(p, l, avail, found, t) ==
  IF ~p.enforcementState.active THEN [p EXCEPT !.loop[l].pc = "done"]
  ELSE IF p.title # p.enforcementState.title THEN Deactivate(p, l)
  ELSE IF ~avail THEN AfterFailure(p, l, t)
  ELSE IF p.pressed
    THEN IF found
           THEN Deactivate(skipSong(p, TRUE), l)
           ELSE [p EXCEPT !.loop[l].pc = "skip"]
  ELSE [p EXCEPT !.queued = @ + 1, !.clicks = @ + 1, !.loop[l].pc = "verify"]

\* handleDislikeCommand at time t, lines 50-63, and the first iteration of
\* the chain it starts
StartEnforcement(p, avail, found, t) ==
  Enforce_Iteration(
    [p EXCEPT !.ncommands = @ + 1,
              !.enforcementState =
                 [active |-> TRUE, title |-> p.title, startTime |-> t],
              !.loop[p.ncommands + 1] =
                 [IdleLoop EXCEPT !.title = p.title, !.started = t]],
    p.ncommands + 1, avail, found, t)

\* the listener handles DISLIKE_SONG, lines 31-33
DislikeCommand(avail, found) ==
  /\ page.ncommands < MaxCommands
  /\ page' = StartEnforcement(page, avail, found, now)
  /\ UNCHANGED <<now, offPage>>

\* the listener handles BLOCK_CURRENT_SONG, lines 37-39: blockCurrentSong
\* up to its wait of 800 ms, lines 257-269
BlockCommand(avail, found) ==
  /\ page.ncommands < MaxCommands
  /\ ~page.isBlocking
  /\ page' = [StartEnforcement(page, avail, found, now)
                EXCEPT !.isBlocking = TRUE,
                       !.block = [pc |-> "wait", title |-> page.title]]
  /\ UNCHANGED <<now, offPage>>

\* blockCurrentSong after its wait, lines 271-287
BlockContinues(found) ==
  /\ page.block.pc = "wait"
  /\ page' = [(IF page.title = page.block.title
                 THEN skipSong(page, found) ELSE page)
                EXCEPT !.isBlocking = FALSE,
                       !.block = [pc |-> "idle", title |-> <<>>]]
  /\ UNCHANGED <<now, offPage>>

\* the retry of chain l queued with setTimeout fires, line 101
LoopRetries(l, avail, found) ==
  /\ page.loop[l].pc = "wait"
  /\ now >= page.loop[l].due
  /\ page' = Enforce_Iteration(page, l, avail, found, now)
  /\ UNCHANGED <<now, offPage>>

\* dislikeSong of chain l after its wait of 200 ms, lines 218-243 (the
\* button is still there: avail), and the rest of the iteration
LoopVerifies(l, avail) ==
  /\ page.loop[l].pc = "verify"
  /\ page' = IF avail /\ page.pressed
               THEN Deactivate(page, l)
               ELSE AfterFailure(page, l, now)
  /\ UNCHANGED <<now, offPage>>

\* handleSkipCommand of chain l after a wait of 500 ms, lines 104-120 (of
\* its ten attempts the last one that matters), and dislikeSong returning
\* true, line 194
LoopSkips(l, found) ==
  /\ page.loop[l].pc = "skip"
  /\ page' = Deactivate(skipSong(page, found), l)
  /\ UNCHANGED <<now, offPage>>

\* the page shows a click on the dislike button: the button toggles
PageUpdates ==
  /\ page.queued > 0
  /\ page' = [page EXCEPT !.queued = @ - 1, !.pressed = ~@]
  /\ UNCHANGED <<now, offPage>>

\* the player moves to another song, disliked already or not
SongEnds(already) ==
  /\ page.nends < MaxSongEnds
  /\ page' = [page EXCEPT !.nends = @ + 1,
                          !.title = IF @ = <<"T">> THEN <<"U">> ELSE <<"T">>,
                          !.pressed = already, !.queued = 0, !.clicks = 0,
                          !.nextClicked = FALSE]
  /\ UNCHANGED <<now, offPage>>

\* time passes on the page
PageTick(d) ==
  /\ page.nticks < MaxPageTicks
  /\ now' = now + d
  /\ page' = [page EXCEPT !.nticks = @ + 1]
  /\ UNCHANGED offPage

\* ------------------------------------------------------------------------
\* Candidate identities handed to MistralAPI.searchArtist
\*
\* picked holds an artist name, the 'analysis' array of a reply built one
\* candidate at a time, and what searchArtist returns for them.
\* ------------------------------------------------------------------------
\* candidates of one reply
MaxCandidates == 3

MatchNames == {<<"a">>, <<" ", "A", " ">>}

\* canonical names of candidates: the name, its topic channel, a longer
\* name, another name, none
CandidateNames ==
  {<<"A">>, <<"a", " ", "-", " ", "Topic">>, <<"a", " ", "x">>, <<"b">>,
   <<>>}

Candidates ==
  {[canonicalName |-> n, country |-> c, isRussian |-> "false",
    isSongUkrainian |-> FALSE] : n \in CandidateNames, c \in {"RU", "UA"}}

NoPick ==
  [artistName |-> <<>>, candidates |-> <<>>, called |-> FALSE,
   result |-> NoResult]

\* a resolution of artistName is asked for
AskFor(artistName) ==
  /\ picked' = [NoPick EXCEPT !.artistName = artistName]
  /\ UNCHANGED <<cacheVars, storeVars, ev, currentSongState, lastSkipTime,
                 sent, timers, job, run, nevents, nruns, tab, norm, page>>

\* the reply lists one more candidate
ListCandidate(c) ==
  /\ picked.artistName # <<>>
  /\ ~picked.called
  /\ Len(picked.candidates) < MaxCandidates
  /\ picked' = [picked EXCEPT !.candidates = Append(@, c)]
  /\ UNCHANGED <<cacheVars, storeVars, ev, currentSongState, lastSkipTime,
                 sent, timers, job, run, nevents, nruns, tab, norm, page>>

\* MistralAPI.searchArtist returns for the reply
SearchReturns ==
  /\ picked.artistName # <<>>
  /\ ~picked.called
  /\ picked' = [picked EXCEPT
                  !.called = TRUE,
                  !.result = searchArtist(picked.artistName,
                               Reply("content", NoName, TRUE,
                                     picked.candidates)).value]
  /\ UNCHANGED <<cacheVars, storeVars, ev, currentSongState, lastSkipTime,
                 sent, timers, job, run, nevents, nruns, tab, norm, page>>

\* ------------------------------------------------------------------------
\* Artist strings handed to normalizeArtist
\*
\* norm holds an artist string (base), a spelling of it (variant) reached
\* by edits that change only letter case, leading, trailing or repeated
\* whitespace, or a closing feat clause, and what normalizeArtist returns
\* for both.
\* ------------------------------------------------------------------------
\* edits of one string
MaxEdits == 2

NormBases ==
  {<<>>, <<"A">>, <<"A", " ", "B">>, <<"A", " ", "&", " ", "B">>,
   <<"And", " ", "B">>}

\* the closing clauses: trailing and parenthesized, each marker
FeatClauses ==
  {<<" ", "feat", ".", " ", "C">>, <<" ", "ft", " ", "C">>,
   <<" ", "featuring", " ", "C">>, <<" ", "(", "Feat", ".", " ", "C", ")">>,
   <<" ", "(", "ft", ".", " ", "C", ")">>}

\* the other spelling of a token that differs in letter case only
OtherCase(tok) ==
  CASE tok = "A" -> "a"
    [] tok = "a" -> "A"
    [] tok = "B" -> "b"
    [] tok = "b" -> "B"
    [] tok = "And" -> "and"
    [] tok = "and" -> "And"
    [] OTHER -> tok

IdleNorm ==
  [base |-> <<>>, variant |-> <<>>, edits |-> 0, clause |-> FALSE,
   called |-> FALSE, ofBase |-> <<>>, ofVariant |-> <<>>]

\* an artist string arrives
PickArtist(s) ==
  /\ norm' = [IdleNorm EXCEPT !.base = s, !.variant = s]
  /\ UNCHANGED <<cacheVars, storeVars, ev, currentSongState, lastSkipTime,
                 sent, timers, job, run, nevents, nruns, tab, page,
                 picked>>

Respell(v, clause) ==
  /\ norm.edits < MaxEdits
  /\ norm' = [norm EXCEPT !.variant = v, !.edits = @ + 1,
                          !.clause = clause, !.called = FALSE, !.ofBase = <<>>,
                          !.ofVariant = <<>>]
  /\ UNCHANGED <<cacheVars, storeVars, ev, currentSongState, lastSkipTime,
                 sent, timers, job, run, nevents, nruns, tab, page,
                 picked>>

\* the same string with the letter case of one token changed
ChangeCase(i) ==
  /\ i \in 1..Len(norm.variant)
  /\ OtherCase(norm.variant[i]) # norm.variant[i]
  /\ Respell([norm.variant EXCEPT ![i] = OtherCase(@)], norm.clause)

\* the same string with one more space in front
LeadingSpace == Respell(<<" ">> \o norm.variant, norm.clause)

\* the same string with one more space behind
TrailingSpace == Respell(norm.variant \o <<" ">>, norm.clause)

\* the same string with one of its spaces repeated
RepeatSpace(i) ==
  /\ i \in 1..Len(norm.variant)
  /\ norm.variant[i] = " "
  /\ Respell(SubSeq(norm.variant, 1, i) \o <<" ">>
               \o SubSeq(norm.variant, i + 1, Len(norm.variant)),
             norm.clause)

\* the same string followed by a feat clause
AppendFeat(clause) ==
  /\ ~norm.clause
  /\ norm.variant # <<>>
  /\ norm.variant[Len(norm.variant)] # " "
  /\ Respell(norm.variant \o clause, TRUE)

\* NormalizationUtils.normalizeArtist is called for both spellings
Normalize ==
  /\ ~norm.called
  /\ norm' = [norm EXCEPT !.called = TRUE,
                          !.ofBase = normalizeArtist(norm.base),
                          !.ofVariant = normalizeArtist(norm.variant)]
  /\ UNCHANGED <<cacheVars, storeVars, ev, currentSongState, lastSkipTime,
                 sent, timers, job, run, nevents, nruns, tab, page,
                 picked>>

\* ------------------------------------------------------------------------
\* The service worker with its evaluateSong calls on record
\*
\* ev holds the last evaluation that returned, as long as the stored lists
\* are the ones it read: an evaluation that took one step read them all at
\* once, and a saveArtists taking effect clears the record.
\* ------------------------------------------------------------------------
\* songs played: one artist, so that every evaluation takes one step
RepeatArtists == {<<"A">>}

\* answers of MistralAPI.searchArtist for query q: the canonical name is
\* the query, the song is or is not judged Ukrainian
RepeatAnswers(q) ==
  {NoResult} \cup
  {[canonicalName |-> q, country |-> o.country, isRussian |-> o.isRussian,
    isSongUkrainian |-> u] :
     o \in {[country |-> "RU", isRussian |-> "true"],
            [country |-> "UA", isRussian |-> "false"]},
     u \in BOOLEAN}

\* the record of an evaluateSong call whose step at position idx gave e
Logged(e, title, artistString, known, idx) ==
  IF ~e.done THEN ev
  ELSE IF idx # 1 THEN NoEval
  ELSE [pc |-> "done", title |-> title, artistString |-> artistString,
        isKnownUkrainian |-> known, readFailed |-> FALSE,
        decision |-> e.decision]

LoggedJobStep(j) ==
  /\ JobStep(j)
  /\ \E e \in {EvalStep(job[j].title, job[j].artist, FALSE, job[j].idx,
                        job[j].acc)} :
       ev' = Logged(e, job[j].title, job[j].artist, FALSE, job[j].idx)

LoggedReEvalStep(r) ==
  /\ ReEvalStep(r)
  /\ \E e \in {EvalStep(run[r].evTitle, run[r].evArtist, run[r].evKnown,
                        run[r].idx, run[r].acc)} :
       ev' = Logged(e, run[r].evTitle, run[r].evArtist, run[r].evKnown,
                    run[r].idx)

LoggedAddWrite(r) ==
  /\ AddWrite(r)
  /\ ev' = NoEval

\* ------------------------------------------------------------------------
\* Specifications
\* ------------------------------------------------------------------------
\* storage as StorageManager.init leaves it
Init ==
  /\ now = Epoch
  /\ ticks = 0
  /\ search_cache = EmptyCache
  /\ call = [c \in Clients |-> IdleCall]
  /\ ncalls = 0
  /\ hist = [c \in Clients |-> NoHist]
  /\ artists = <<>>
  /\ songs = <<>>
  /\ saved = <<>>
  /\ ev = NoEval
  /\ currentSongState = NoSong
  /\ lastSkipTime = 0
  /\ sent = {}
  /\ timers = {}
  /\ job = [j \in 1..MaxEvents |-> IdleJob]
  /\ run = [r \in Clients |-> IdleRun]
  /\ nevents = 0
  /\ nruns = 0
  /\ tab = IdleTab
  /\ norm = IdleNorm
  /\ page = IdlePage
  /\ picked = NoPick

\* clients calling the SearchCache API concurrently
NextCache ==
  /\ \/ \E c \in Clients, q \in Queries : CallGet(c, q)
     \/ \E c \in Clients, q \in Queries : CallSetPending(c, q)
     \/ \E c \in Clients, q \in Queries : CallSetResolved(c, q)
     \/ \E c \in Clients, q \in Queries : CallSetFailed(c, q)
     \/ \E c \in Clients : ClientGetRead(c)
     \/ \E c \in Clients : ClientUpdRead(c)
     \/ \E c \in Clients : ClientUpdWrite(c)
     \/ \E d \in Deltas : ClientTick(d)
  /\ UNCHANGED <<storeVars, ev, workerVars>>

SpecCache == Init /\ [][NextCache]_vars

\* evaluations over a knowledgebase filled by sequential calls
NextEval ==
  /\ \/ \E n \in ArtistNames, o \in Origins, al \in AliasNames :
          StoreArtist(n, o, al)
     \/ \E t \in SongTitles, i \in 1..MaxArtists : StoreSong(t, i)
     \/ \E t \in Titles, a \in ArtistStrings, k \in BOOLEAN : Evaluate(t, a, k)
  /\ UNCHANGED workerVars

SpecEval == Init /\ [][NextEval]_vars

\* addArtist calls one after the other, from the empty list
NextStore ==
  \E n \in UpsertNames, al \in AliasLists :
    Upsert(UpsertRecord(Len(saved) + 1, n, al))

SpecStore == Init /\ [][NextStore]_vars

\* evaluations during which a storage read may reject, over a knowledgebase
\* of one artist name filled by sequential calls
NextFailing ==
  /\ \/ \E o \in Origins : StoreArtist(<<"A">>, o, <<"a">>)
     \/ \E t \in SongTitles, i \in 1..MaxArtists : StoreSong(t, i)
     \/ \E t \in Titles, a \in ArtistStrings, k \in BOOLEAN,
           f \in ReadPositions : EvaluateFailing(t, a, k, f)
  /\ UNCHANGED workerVars

SpecFailing == Init /\ [][NextFailing]_vars

\* the service worker receiving SONG_CHANGED messages
Next ==
  \/ \E t \in PlayedTitles, a \in PlayedArtists : SongChanged(t, a)
  \/ \E j \in 1..MaxEvents : JobStep(j) /\ UNCHANGED ev
  \/ \E t \in timers : RetryFires(t)
  \/ \E r \in Clients : RunCheck(r)
  \/ \E r \in Clients : RunGetRead(r)
  \/ \E r \in Clients : RunUpdRead(r)
  \/ \E r \in Clients : RunUpdWrite(r)
  \/ \E r \in Clients : \E d \in PlayedDetails(run[r].q) : YtReturns(r, d)
  \/ \E r \in Clients : \E res \in Answers(run[r].q) : MistralReturns(r, res)
  \/ \E r \in Clients : MistralFails(r)
  \/ \E r \in Clients : AddRead(r)
  \/ \E r \in Clients : AddWrite(r) /\ UNCHANGED ev
  \/ \E r \in Clients : ReEvalStep(r) /\ UNCHANGED ev
  \/ \E d \in Delays : Delay(d)

Spec == Init /\ [][Next]_vars

\* the service worker receiving SONG_CHANGED messages for songs of one
\* artist, its evaluations on record
NextRepeat ==
  \/ \E t \in PlayedTitles, a \in RepeatArtists : SongChanged(t, a)
  \/ \E j \in 1..MaxEvents : LoggedJobStep(j)
  \/ \E t \in timers : RetryFires(t)
  \/ \E r \in Clients : RunCheck(r)
  \/ \E r \in Clients : RunGetRead(r)
  \/ \E r \in Clients : RunUpdRead(r)
  \/ \E r \in Clients : RunUpdWrite(r)
  \/ \E r \in Clients : \E d \in PlayedDetails(run[r].q) : YtReturns(r, d)
  \/ \E r \in Clients : \E res \in RepeatAnswers(run[r].q) :
       MistralReturns(r, res)
  \/ \E r \in Clients : MistralFails(r)
  \/ \E r \in Clients : AddRead(r)
  \/ \E r \in Clients : LoggedAddWrite(r)
  \/ \E r \in Clients : LoggedReEvalStep(r)
  \/ \E d \in Delays : Delay(d)

SpecRepeat == Init /\ [][NextRepeat]_vars

\* the steps the worker takes by itself once a message has arrived: its
\* storage operations complete and the two external services settle
ResolveSteps ==
  \/ \E j \in 1..MaxEvents : JobStep(j) /\ UNCHANGED ev
  \/ \E t \in timers : RetryFires(t)
  \/ \E r \in Clients : RunCheck(r)
  \/ \E r \in Clients : RunGetRead(r)
  \/ \E r \in Clients : RunUpdRead(r)
  \/ \E r \in Clients : RunUpdWrite(r)
  \/ \E r \in Clients : \E l \in ResolveLookups(run[r].q) : YtSettles(r, l)
  \/ \E r \in Clients : \E reply \in ResolveReplies(run[r].q) :
       MistralSettles(r, reply)
  \/ \E r \in Clients : AddRead(r)
  \/ \E r \in Clients : AddWrite(r) /\ UNCHANGED ev
  \/ \E r \in Clients : ReEvalStep(r) /\ UNCHANGED ev

\* the service worker receiving SONG_CHANGED messages for songs of one
\* artist, the two external services answering in every way they can
NextResolve ==
  \/ \E t \in ResolveTitles, a \in RepeatArtists : SongChanged(t, a)
  \/ ResolveSteps
  \/ \E d \in Delays : Delay(d)

SpecResolve == Init /\ [][NextResolve]_vars

\* the same, the user adding a blocked artist to the list in between
NextListed ==
  \/ /\ StoreArtist(<<"A">>, [country |-> "RU", isRussian |-> "true"],
                     <<"a">>)
     /\ UNCHANGED workerVars
  \/ NextResolve

SpecListed == Init /\ [][NextListed]_vars

\* the service worker receiving SONG_CHANGED messages for songs of one
\* artist, and the content script of the tab handling its commands
NextTab ==
  \/ \E t \in PlayedTitles, a \in RepeatArtists : SongChanged(t, a)
  \/ \E j \in 1..MaxEvents : JobStep(j) /\ UNCHANGED ev
  \/ \E t \in timers : RetryFires(t)
  \/ \E r \in Clients : RunCheck(r)
  \/ \E r \in Clients : RunGetRead(r)
  \/ \E r \in Clients : RunUpdRead(r)
  \/ \E r \in Clients : RunUpdWrite(r)
  \/ \E r \in Clients : \E d \in PlayedDetails(run[r].q) : YtReturns(r, d)
  \/ \E r \in Clients : \E res \in Answers(run[r].q) : MistralReturns(r, res)
  \/ \E r \in Clients : MistralFails(r)
  \/ \E r \in Clients : AddRead(r)
  \/ \E r \in Clients : AddWrite(r) /\ UNCHANGED ev
  \/ \E r \in Clients : ReEvalStep(r) /\ UNCHANGED ev
  \/ \E d \in Delays : Delay(d)
  \/ \E c \in sent, already \in BOOLEAN, moved \in BOOLEAN :
       TabHandles(c, already, moved)

SpecTab == Init /\ [][NextTab]_vars

\* artist strings and their spellings handed to normalizeArtist
NextNormalize ==
  \/ \E s \in NormBases : PickArtist(s)
  \/ \E i \in 1..Len(norm.variant) : ChangeCase(i)
  \/ LeadingSpace
  \/ TrailingSpace
  \/ \E i \in 1..Len(norm.variant) : RepeatSpace(i)
  \/ \E clause \in FeatClauses : AppendFeat(clause)
  \/ Normalize

SpecNormalize == Init /\ [][NextNormalize]_vars

\* the content script handling enforcement commands on the player page
NextPage ==
  \/ \E avail \in BOOLEAN, found \in BOOLEAN : DislikeCommand(avail, found)
  \/ \E avail \in BOOLEAN, found \in BOOLEAN : BlockCommand(avail, found)
  \/ \E found \in BOOLEAN : BlockContinues(found)
  \/ \E l \in 1..MaxCommands, avail \in BOOLEAN, found \in BOOLEAN :
       LoopRetries(l, avail, found)
  \/ \E l \in 1..MaxCommands, avail \in BOOLEAN : LoopVerifies(l, avail)
  \/ \E l \in 1..MaxCommands, found \in BOOLEAN : LoopSkips(l, found)
  \/ PageUpdates
  \/ \E already \in BOOLEAN : SongEnds(already)
  \/ \E d \in PageDelays : PageTick(d)

SpecPage == Init /\ [][NextPage]_vars

\* replies with several candidates handed to searchArtist
NextMatch ==
  \/ \E n \in MatchNames : AskFor(n)
  \/ \E c \in Candidates : ListCandidate(c)
  \/ SearchReturns

SpecMatch == Init /\ [][NextMatch]_vars

\* the same, where the calls a resolution waits for come to an end: the
\* storage operations of its SearchCache calls complete and the two
\* external services settle
FairResolve ==
  /\ SpecResolve
  /\ WF_vars(\E r \in Clients : RunGetRead(r))
  /\ WF_vars(\E r \in Clients : RunUpdRead(r))
  /\ WF_vars(\E r \in Clients : RunUpdWrite(r))
  /\ WF_vars(\E r \in Clients : \E l \in ResolveLookups(run[r].q) :
               YtSettles(r, l))
  /\ WF_vars(\E r \in Clients : \E reply \in ResolveReplies(run[r].q) :
               MistralSettles(r, reply))

\* ------------------------------------------------------------------------
\* Properties of the search cache (under SpecCache)
\* ------------------------------------------------------------------------
Age(entry) == now - entry.timestamp

\* a stored entry that blocks a new search at the current time
Live(entry) ==
  \/ entry.state = "pending" /\ Age(entry) <= PENDING_TIMEOUT
  \/ entry.state = "resolved" /\ Age(entry) <= CACHE_TTL

\* a stored entry over which a new search may start at the current time
Retryable(entry) ==
  \/ entry.state = "none"
  \/ entry.state = "failed"
  \/ entry.state = "pending" /\ Age(entry) > PENDING_TIMEOUT
  \/ entry.state = "resolved" /\ Age(entry) > CACHE_TTL

\* client c issues a call in this step
Issues(c) ==
  \E q \in Queries :
    CallGet(c, q) \/ CallSetPending(c, q) \/ CallSetResolved(c, q)
      \/ CallSetFailed(c, q)

\* a call of client c returns in this step
Returns(c) ==
  /\ call'[c].pc = "done"
  /\ GetRead(c) \/ UpdWrite(c) \/ Issues(c)

\* the call of c returning in this step is the second of two setPending of
\* the same query in succession, with no write of another client between
SecondOfTwo(c) ==
  /\ Returns(c)
  /\ call'[c].op = "setPending"
  /\ hist'[c].prev.op = "setPending"
  /\ hist'[c].prev.q = call'[c].q
  /\ hist[c].quiet

\* C1: of two setPending calls for one query that overlap in time, at most
\* one returns true.
C1_AtMostOneInterleavedClaim ==
  \A c \in Clients : \A d \in Clients \ {c} :
    ( /\ call[c].op = "setPending" /\ call[d].op = "setPending"
      /\ call[c].q = call[d].q
      /\ call[c].pc = "done" /\ call[d].pc = "done"
      /\ hist[c].racing )
    => ~(call[c].ret /\ call[d].ret)

C5_LiveEntryBlocksWithoutWrite ==
  [][ \A c \in Clients :
        /\ (GetRead(c) /\ call[c].op = "setPending"
              /\ Live(search_cache[call[c].q]))
             => /\ call'[c].pc = "done"
                /\ ~call'[c].ret
                /\ search_cache' = search_cache
        /\ CallSetPending(c, <<>>)
             => /\ call'[c].pc = "done"
                /\ ~call'[c].ret
                /\ search_cache' = search_cache ]_vars

C5_Witness ==
  \E c \in Clients :
    /\ call[c].op = "setPending" /\ call[c].pc = "done" /\ ~call[c].ret
    /\ call[c].q # <<>>
    /\ search_cache[call[c].q].state = "resolved"
    /\ Age(search_cache[call[c].q]) = CACHE_TTL
    /\ \E q \in Queries \ {call[c].q} : search_cache[q].state # "none"

\* C6: setPending of a non-empty query goes on to write when the stored entry
\* is absent, failed, pending and older than 60 s, or resolved and older than
\* 24 h; what it writes is a pending entry stamped with the time of that
\* decision, and it then returns true.
C6_RetryWritesFreshPending ==
  [][ \A c \in Clients :
        /\ (GetRead(c) /\ call[c].op = "setPending"
              /\ Retryable(search_cache[call[c].q]))
             => /\ call'[c].pc = "upd_read"
                /\ call'[c].entry = Entry("pending", now, "")
        /\ (UpdWrite(c) /\ call[c].op = "setPending")
             => /\ call'[c].ret
                /\ search_cache'[call[c].q].state = "pending"
                /\ search_cache'[call[c].q] = call[c].entry
                /\ call[c].entry.timestamp <= now ]_vars

\* a retry that went through over an entry that had timed out or expired
C6_Witness ==
  \E c \in Clients :
    /\ call[c].op = "setPending" /\ call[c].pc = "done" /\ call[c].ret
    /\ hist[c].prev.op = "setPending" /\ hist[c].prev.q = call[c].q
    /\ hist[c].prev.ret
    /\ search_cache[call[c].q].state = "pending"
    /\ search_cache[call[c].q].timestamp > Epoch + PENDING_TIMEOUT

\* C7: get of a stored pending entry older than 60 s returns a view in state
\* failed and writes nothing: the stored entry stays the pending record.
C7_TimedOutPendingViewedFailed ==
  [][ \A c \in Clients :
        (GetRead(c) /\ call[c].op = "get"
           /\ search_cache[call[c].q].state = "pending"
           /\ Age(search_cache[call[c].q]) > PENDING_TIMEOUT)
        => /\ call'[c].pc = "done"
           /\ call'[c].view.state = "failed"
           /\ call'[c].view.timestamp = search_cache[call[c].q].timestamp
           /\ search_cache' = search_cache ]_vars

C7_Witness ==
  \E c \in Clients :
    /\ call[c].op = "get" /\ call[c].pc = "done"
    /\ call[c].view.state = "failed"
    /\ call[c].view.info = "Search timed out"
    /\ search_cache[call[c].q].state = "pending"
    /\ Age(search_cache[call[c].q]) > PENDING_TIMEOUT

\* C8: get of a stored resolved entry returns null when the entry is older
\* than 24 h and the entry itself otherwise.
C8_ResolvedExpiresAfterTtl ==
  [][ \A c \in Clients :
        (GetRead(c) /\ call[c].op = "get"
           /\ search_cache[call[c].q].state = "resolved")
        => /\ call'[c].pc = "done"
           /\ call'[c].view =
                IF Age(search_cache[call[c].q]) > CACHE_TTL
                  THEN NoEntry
                  ELSE search_cache[call[c].q] ]_vars

C8_Witness ==
  \E c \in Clients :
    /\ call[c].op = "get" /\ call[c].pc = "done"
    /\ call[c].view = NoEntry
    /\ search_cache[call[c].q].state = "resolved"
    /\ Age(search_cache[call[c].q]) > CACHE_TTL

\* ------------------------------------------------------------------------
\* Properties of the evaluator
\* ------------------------------------------------------------------------
\* the stored record is flagged: country 'RU' or 'russia' in any case, or
\* isRussian true
Flagged(a) ==
  \/ a.country \in {"RU", "Russia", "RUSSIA", "russia"}
  \/ a.isRussian = "true"

\* the evaluation that has just returned was decided by neither the input
\* validation, the song override nor the language stage
ReachedArtistStage ==
  /\ ev.pc = "done"
  /\ ev.title # <<>> /\ ev.artistString # <<>>
  /\ ~checkSongMatch(ev.title, ev.artistString, songs, artists)
  /\ ~isUkrainianString(ev.title) /\ ~ev.isKnownUkrainian

\* the split artists of the evaluated string whose name is that of a stored
\* flagged artist
FlaggedCollaborators ==
  {i \in 1..Len(splitArtists(ev.artistString)) :
     \E k \in 1..Len(artists) :
       /\ normalizeArtist(artists[k].name)
            = normalizeArtist(splitArtists(ev.artistString)[i])
       /\ Flagged(artists[k])}

ValidInput ==
  ev.pc = "done" /\ ev.title # <<>> /\ ev.artistString # <<>>

\* the evaluated pair matches a stored song
SongOverride == checkSongMatch(ev.title, ev.artistString, songs, artists)

C12_SongOverrideDecidesFirst ==
  ValidInput /\ SongOverride
    => /\ ~ev.decision.shouldBlock
       /\ ev.decision.step = "SONG"
       /\ ev.decision.artistsToSearch = <<>>

\* a stored song with a Ukrainian title, by a stored flagged artist, has
\* been evaluated
C12_Witness ==
  /\ ValidInput /\ SongOverride
  /\ isUkrainianString(ev.title)
  /\ FlaggedCollaborators # {}
  /\ ev.decision.step = "SONG"

\* the names of the evaluated artist string that match no stored artist, in
\* the order of the string
Unmatched ==
  LET names == IndividualArtists(ev.artistString)
      Missing(n) == \A k \in 1..Len(artists) :
                      normalizeArtist(artists[k].name) # normalizeArtist(n)
  IN  SelectSeq(names, Missing)

\* C13: when no earlier stage decides, no split artist is flagged and at
\* least one matches no stored artist, evaluateSong returns shouldBlock =
\* false with step 'PENDING_SEARCH' and artistsToSearch equal to the
\* unmatched names in the order of the artist string.
C13_PendingSearchListsUnmatched ==
  ReachedArtistStage /\ FlaggedCollaborators = {} /\ Unmatched # <<>>
    => /\ ~ev.decision.shouldBlock
       /\ ev.decision.step = "PENDING_SEARCH"
       /\ ev.decision.artistsToSearch = Unmatched

\* a track of two different artists, neither of them stored while another
\* artist is, has been evaluated
C13_Witness ==
  /\ ReachedArtistStage /\ FlaggedCollaborators = {}
  /\ artists # <<>>
  /\ Len(Unmatched) = 2 /\ Unmatched[1] # Unmatched[2]
  /\ ev.decision.step = "PENDING_SEARCH"
  /\ ev.decision.artistsToSearch = Unmatched

\* C15: evaluateSong with a missing or empty title or artist string returns
\* the same non-blocking decision, reason 'Invalid input', whatever storage
\* holds: no song or artist is looked up.
C15_InvalidInputShortCircuits ==
  ev.pc = "done" /\ (ev.title = <<>> \/ ev.artistString = <<>>)
    => ev.decision = Decision(FALSE, "none", "Validation", "Invalid input",
                              <<>>, NoArtists)

\* a Ukrainian title without an artist string has been evaluated while a
\* song and a flagged artist are stored
C15_Witness ==
  /\ ev.pc = "done"
  /\ isUkrainianString(ev.title) /\ ev.artistString = <<>>
  /\ songs # <<>>
  /\ \E k \in 1..Len(artists) : Flagged(artists[k])
  /\ ev.decision.reason = "Invalid input"

\* names looked up in the artist list
LookupNames == ArtistNames \cup AliasNames \cup {<<>>, <<"C">>}

\* the stored record answers to the name: by its canonical name or by one
\* of its aliases, all normalized
AnswersTo(a, name) ==
  \/ normalizeArtist(a.name) = normalizeArtist(name)
  \/ \E i \in 1..Len(a.aliases) :
       normalizeArtist(a.aliases[i]) = normalizeArtist(name)

\* C17: checkArtistMatch(name) returns the first stored record, in list
\* order, whose normalized canonical name or one of whose normalized aliases
\* equals normalizeArtist(name), and no match when there is none.
C17_MatchesNameOrAlias ==
  \A name \in LookupNames \ {<<>>} :
    LET k == FirstIndex([i \in 1..Len(artists) |->
                           AnswersTo(artists[i], name)])
    IN  checkArtistMatch(name, artists) =
          IF k = 0 THEN [match |-> FALSE, artist |-> NoArtist]
          ELSE [match |-> TRUE, artist |-> artists[k]]

\* ------------------------------------------------------------------------
\* Properties of the service worker (under Spec)
\* ------------------------------------------------------------------------
\* the run's metadata fetch or resolver call is in flight
Resolving(r) == run[r].pc \in {"yt", "mistral"}

\* C2: at every moment and for every query, at most one resolution started
\* by the service worker is in flight for that query.
C2_OneResolutionPerQuery ==
  \A r \in Clients : \A p \in Clients \ {r} :
    ~(Resolving(r) /\ Resolving(p) /\ run[r].q = run[p].q)

\* C3: a run reaches YouTubeAPI.getArtistDetails and MistralAPI.searchArtist
\* only after its checkArtistMatch found no match and its setPending
\* returned true, the metadata fetch being called in the step in which that
\* setPending returns; a run whose setPending returned false calls neither.
C3_CallsOnlyAfterClaim ==
  [][ \A r \in Clients :
        /\ (run'[r].ytCalled /\ ~run[r].ytCalled)
             => /\ run[r].noMatch
                /\ run[r].pc = "setPending"
                /\ call[r].op = "setPending" /\ call[r].q = run[r].q
                /\ call[r].pc # "done"
                /\ call'[r].pc = "done" /\ call'[r].ret
        /\ (run'[r].mistralCalled /\ ~run[r].mistralCalled)
             => /\ run[r].noMatch
                /\ run[r].started = "true"
                /\ run[r].ytCalled
        /\ (call'[r].op = "setPending" /\ call'[r].pc = "done"
              /\ ~call'[r].ret)
             => /\ ~run'[r].ytCalled
                /\ ~run'[r].mistralCalled ]_vars

\* one run has called the resolver while the run of a later message for the
\* same artist was turned away by setPending
C3_Witness ==
  \E r \in Clients : \E p \in Clients \ {r} :
    /\ run[r].mistralCalled /\ run[r].started = "true"
    /\ run[p].q = run[r].q
    /\ run[p].pc = "skipped" /\ run[p].started = "false"
    /\ run[p].noMatch /\ ~run[p].ytCalled

\* the changes of state of a stored cache entry
EntryTransitions ==
  {<<"pending", "resolved">>, <<"pending", "failed">>,
   <<"failed", "pending">>}

\* C9: the stored entry of a query changes state only from pending to
\* resolved, from pending to failed and from failed to pending; a stored
\* resolved entry is never replaced by a pending or a failed one.  (The
\* creation of an entry, and an entry dropping out of the stored map, are
\* not counted as changes of state.)
C9_EntryStateTransitions ==
  [][ \A q \in Queries :
        ( /\ search_cache'[q].state # search_cache[q].state
          /\ search_cache[q].state # "none"
          /\ search_cache'[q].state # "none" )
          => <<search_cache[q].state, search_cache'[q].state>>
               \in EntryTransitions ]_vars

\* the resolution of run r has completed with a usable result: its
\* setResolved has returned, its addArtist has returned, and the record
\* that carries the query as an alias is in the stored list
ResolutionCompleted(r) ==
  /\ run[r].pc = "reevaluate"
  /\ call[r].op = "setResolved" /\ call[r].pc = "done"
  /\ \E k \in 1..Len(artists) : Includes(artists[k].aliases, run[r].q)

\* C16: once the resolution for query q has completed with a usable result,
\* an evaluation whose artist list contains q no longer counts q among the
\* unknown artists: a song credited to q alone does not stay 'pending'.
C16_ResolvedArtistIsKnown ==
  [][\A r \in Clients :
       ResolutionCompleted(r) /\ Includes(IndividualArtists(run[r].evArtist),
                                          run[r].q)
         => /\ (run'[r].pc = "reevaluate")
                 => ~Includes(run'[r].acc.unknown, run[r].q)
            /\ (/\ run'[r].pc = "added"
                /\ IndividualArtists(run[r].evArtist) = <<run[r].q>>)
                 => currentSongState'.status # "pending"]_vars

\* C20: whatever addArtist calls have run since the list was empty, one
\* after the other or interleaved at their storage awaits, no two stored
\* records have names that normalize to the same string.
C20_OneRecordPerNormalizedName ==
  \A i, k \in 1..Len(artists) :
    normalizeArtist(artists[i].name) = normalizeArtist(artists[k].name)
      => i = k

\* two resolutions, of different queries, were answered with the same
\* canonical name; both addArtist calls read the list before either saved,
\* so that the record stored holds one alias only
C20_Witness ==
  /\ run[1].pc = "added" /\ run[2].pc = "added"
  /\ run[1].q # run[2].q
  /\ Len(artists) = 1
  /\ artists[1].name = <<"x">>
  /\ Len(artists[1].aliases) = 1

\* ------------------------------------------------------------------------
\* Properties of StorageManager.addArtist (under SpecStore)
\* ------------------------------------------------------------------------
Range(list) == {list[i] : i \in 1..Len(list)}

\* the positions of the stored records whose name normalizes as name does
Named(list, name) ==
  {i \in 1..Len(list) :
     normalizeArtist(list[i].name) = normalizeArtist(name)}

\* the last two calls were made with records of the same normalized name,
\* unknown to the list before them, and with different alias lists
TwoUpserts ==
  /\ Len(saved) >= 2
  /\ LET c1 == saved[Len(saved) - 1]
         c2 == saved[Len(saved)]
     IN  /\ normalizeArtist(c1.artist.name) = normalizeArtist(c2.artist.name)
         /\ c1.artist.aliases # c2.artist.aliases
         /\ Named(c1.before, c1.artist.name) = {}

Existing ==
  IF saved = <<>> THEN 0
  ELSE LET c == saved[Len(saved)]
       IN  FirstIndex([j \in 1..Len(c.before) |->
             normalizeArtist(c.before[j].name)
               = normalizeArtist(c.artist.name)])

\* the last call was made with the name, origin and aliases of the call
\* before it
Repeated ==
  /\ Len(saved) >= 2
  /\ LET c1 == saved[Len(saved) - 1].artist
         c2 == saved[Len(saved)].artist
     IN  [c2 EXCEPT !.id = c1.id] = c1

\* C19: addArtist on a record whose normalized name is already stored
\* changes nothing but the aliases of the stored record, appends each
\* missing alias once and no alias that is present, saves nothing when
\* every alias is present, and is a no-op when the same call is repeated.
C19_UpsertExistingMergesAliasesOnly ==
  Existing # 0
    => LET c == saved[Len(saved)]
           i == Existing
           old == c.before[i].aliases
           new == artists[i].aliases
           added == (Len(old) + 1)..Len(new)
       IN  /\ Len(artists) = Len(c.before)
           /\ \A j \in 1..Len(artists) : j # i => artists[j] = c.before[j]
           /\ [artists[i] EXCEPT !.aliases = old] = c.before[i]
           /\ Len(new) >= Len(old) /\ SubSeq(new, 1, Len(old)) = old
           /\ Range(new) = Range(old) \cup Range(c.artist.aliases)
           /\ \A m \in added :
                /\ new[m] \notin Range(old)
                /\ \A n \in added : new[m] = new[n] => m = n
           /\ c.wrote <=> ~(Range(c.artist.aliases) \subseteq Range(old))
           /\ ~c.wrote => artists = c.before
           /\ Repeated => ~c.wrote /\ artists = c.before

\* a record of another spelling and another country than the stored one,
\* with one alias that is stored and one that is not, has been merged
C19_Witness ==
  /\ Existing # 0
  /\ LET c == saved[Len(saved)]
         i == Existing
     IN  /\ c.wrote
         /\ c.artist.name # c.before[i].name
         /\ c.artist.country # c.before[i].country
         /\ Len(c.artist.aliases) = 2
         /\ Len(artists[i].aliases) = Len(c.before[i].aliases) + 1

\* ------------------------------------------------------------------------
\* Properties of repeated evaluations (under SpecRepeat)
\* ------------------------------------------------------------------------
SameDecision(d1, d2) ==
  /\ d1.shouldBlock = d2.shouldBlock
  /\ d1.blockMode = d2.blockMode
  /\ d1.step = d2.step
  /\ d1.artistsToSearch = d2.artistsToSearch

\* C14: an evaluation of the service worker that returns for the pair
\* (title, artistString) of the evaluation on record, the stored artists and
\* songs being those the recorded evaluation read, returns the decision on
\* record: the same shouldBlock, blockMode, step and artistsToSearch.
C14_SamePairSameDecision ==
  [][(/\ ev.pc = "done" /\ ev'.pc = "done"
      /\ ev'.title = ev.title /\ ev'.artistString = ev.artistString)
       => SameDecision(ev.decision, ev'.decision)]_vars

\* ------------------------------------------------------------------------
\* Properties of one resolution (under SpecResolve)
\* ------------------------------------------------------------------------
\* the step of run r at which MistralAPI.searchArtist is called
CallsResolver(r) == ~run[r].mistralCalled /\ run'[r].mistralCalled

\* the run has the result of a hard block in hand
HardBlocked(r) ==
  /\ run[r].pc \in {"addArtist", "saveArtists"}
  /\ run[r].ytCalled
  /\ ~run[r].mistralCalled

\* C21: when the lookup gives details with hasVkLink, hasYandexLink or
\* hasRussianPhone set, the resolution has a result with isRussian true and
\* country 'RU' and MistralAPI.searchArtist is not called for it, then or
\* later; when no flag is set or the details are null, searchArtist is
\* called with the artist searched for, the details and the captured title.
C21_HardBlockSkipsResolver ==
  [][\A r \in Clients :
       /\ \A l \in ResolveLookups(run[r].q) :
            YtSettles(r, l) =>
              LET ytDetails == getArtistDetails(l).value
              IN  IF ytDetails.found /\ (\/ ytDetails.hasVkLink
                                         \/ ytDetails.hasYandexLink
                                         \/ ytDetails.hasRussianPhone)
                    THEN /\ run'[r].pc = "addArtist"
                         /\ run'[r].newArtist.isRussian = "true"
                         /\ run'[r].newArtist.country = "RU"
                         /\ ~run'[r].mistralCalled
                    ELSE /\ run'[r].pc = "mistral"
                         /\ CallsResolver(r)
                         /\ run'[r].q = run[r].q
                         /\ run'[r].ytDetails = ytDetails
                         /\ run'[r].searchTitle = run[r].searchTitle
       /\ CallsResolver(r) => run[r].pc = "yt" /\ run'[r].pc = "mistral"
       /\ run[r].pc # "yt" /\ ~run[r].mistralCalled => ~run'[r].mistralCalled
    ]_vars

\* a run holds the result of a hard block, the resolver not called; another
\* run of the behaviour has called the resolver with details of a channel
C21_Witness ==
  \E r, r2 \in Clients :
    /\ HardBlocked(r)
    /\ run[r].newArtist.country = "RU"
    /\ run[r2].pc = "mistral"
    /\ run[r2].ytDetails.found

\* the resolver gives nothing usable for this reply: it throws, or returns
\* null or an object without canonicalName
Unusable(q, reply) ==
  \/ reply.kind \in {"network_error", "not_ok", "no_choices", "unparseable"}
  \/ searchArtist(q, reply).value.canonicalName = <<>>

\* C22: when the resolver throws, returns null, is answered with content
\* that does not parse or returns a result without canonicalName, the
\* orchestration calls SearchCache.setFailed for the artist searched for
\* and writes neither Artists nor Songs, at that step or later in the run.
C22_UnusableResultSetsFailed ==
  [][\A r \in Clients :
       /\ \A reply \in ResolveReplies(run[r].q) :
            (MistralSettles(r, reply) /\ Unusable(run[r].q, reply)) =>
              /\ call'[r].op = "setFailed"
              /\ call'[r].q = run[r].q
              /\ call'[r].pc # "done"
              /\ call'[r].entry.state = "failed"
              /\ run'[r].pc = "failed"
              /\ artists' = artists
              /\ songs' = songs
       /\ run[r].pc = "failed" => run'[r] = run[r]
       /\ (artists' # artists \/ songs' # songs) =>
            \E w \in Clients : run[w].pc = "saveArtists"
    ]_vars

\* a run has ended on an unusable result, its setFailed call is done and
\* nothing is stored
C22_Witness ==
  \E r \in Clients :
    /\ run[r].pc = "failed"
    /\ run[r].mistralCalled
    /\ call[r].op = "setFailed"
    /\ call[r].pc = "done"
    /\ search_cache[run[r].q].state = "failed"
    /\ artists = <<>>
    /\ songs = <<>>

\* ------------------------------------------------------------------------
\* Properties of one resolution, its calls completing (under FairResolve)
\* ------------------------------------------------------------------------
\* the setResolved or setFailed call of run r has taken effect
Recorded(r) ==
  /\ call[r].op \in {"setResolved", "setFailed"}
  /\ call[r].q = run[r].q
  /\ call[r].pc = "done"

\* C23: every resolution attempt whose setPending returned true comes to
\* an end at which it has stored the entry of its query as resolved or
\* failed, provided the calls of the two services settle and the storage
\* operations complete; an error of the resolver ends that attempt only.
C23_AttemptEndsRecorded ==
  /\ \A r \in Clients : (run[r].started = "true") ~> Recorded(r)
  /\ [][\A r \in Clients :
          /\ (~Recorded(r) /\ Recorded(r)') =>
               search_cache'[run[r].q].state \in {"resolved", "failed"}
          /\ (run[r].pc = "mistral" /\ run'[r].pc = "failed") =>
               \A o \in Clients \ {r} : run'[o] = run[o] /\ call'[o] = call[o]
       ]_vars

\* an attempt has ended on a resolver error and recorded it; the other
\* attempt went on and has added its artist
C23_Witness ==
  \E r, o \in Clients :
    /\ run[r].started = "true"
    /\ run[r].pc = "failed"
    /\ run[r].mistralCalled
    /\ Recorded(r)
    /\ run[o].pc = "added"
    /\ Recorded(o)

\* ------------------------------------------------------------------------
\* Properties of the enforcement (under SpecResolve)
\* ------------------------------------------------------------------------
\* the evaluation of artistString, at its step idx with acc collected so
\* far, has found a stored flagged artist
FoundFlagged(artistString, idx, acc) ==
  \/ \E i \in 1..Len(acc.blocked) : Flagged(acc.blocked[i])
  \/ \E k \in 1..Len(artists) :
       /\ Flagged(artists[k])
       /\ normalizeArtist(artists[k].name)
            = IndividualArtists(artistString)[idx]

\* an evaluation returns at this step, having found a stored flagged artist
EvaluationFoundFlagged ==
  \/ \E j \in 1..MaxEvents :
       /\ job[j].pc = "eval" /\ job'[j].pc = "idle"
       /\ FoundFlagged(job[j].artist, job[j].idx, job[j].acc)
  \/ \E r \in Clients :
       /\ run[r].pc = "reevaluate" /\ run'[r].pc = "added"
       /\ FoundFlagged(run[r].evArtist, run[r].idx, run[r].acc)

\* the lookup of the metadata fails: getArtistDetails gives null
LookupFails(l) == ~l.key \/ l.search # "channel" \/ l.channel = "throws"

\* C24: a resolver error, an empty or malformed resolver result or a failed
\* metadata lookup changes neither the status of the song nor the commands
\* sent or queued; the status becomes 'blocked', a DISLIKE_SONG or SKIP_SONG
\* command is sent or a retry is queued only at the return of an evaluation
\* that found a stored flagged artist, and BLOCK_CURRENT_SONG is sent only
\* by such a retry.
C24_FailuresNeverBlock ==
  [][/\ \A r \in Clients :
          /\ \A l \in ResolveLookups(run[r].q) :
               (YtSettles(r, l) /\ LookupFails(l)) =>
                 UNCHANGED <<currentSongState, sent, timers>>
          /\ \A reply \in ResolveReplies(run[r].q) :
               (MistralSettles(r, reply) /\ Unusable(run[r].q, reply)) =>
                 UNCHANGED <<currentSongState, sent, timers>>
     /\ ( \/ currentSongState'.status = "blocked"
             /\ currentSongState.status # "blocked"
          \/ (sent' \ sent) \cap {"DISLIKE_SONG", "SKIP_SONG"} # {}
          \/ timers' \ timers # {} ) => EvaluationFoundFlagged
     /\ "BLOCK_CURRENT_SONG" \in sent' \ sent => timers \ timers' # {}
    ]_vars

\* both resolutions started for the songs played have failed at the
\* resolver; the song is not blocked and nothing was sent or queued
C24_Witness ==
  /\ \A r \in Clients :
       run[r].pc = "failed" /\ run[r].mistralCalled /\ call[r].pc = "done"
  /\ currentSongState.status = "pending"
  /\ sent = {}
  /\ timers = {}

\* the re-evaluation of run r returns at this step
ReEvaluationReturns(r) ==
  run[r].pc = "reevaluate" /\ run'[r].pc = "added"

\* C25: the re-evaluation that follows a resolution is of the song that
\* started the search, and when it returns its outcome is applied (status
\* changed, DISLIKE_SONG or SKIP_SONG sent) only if the title playing is
\* still the title captured when the search started.
C25_ReEvaluationOnlyForOriginatingSong ==
  [][\A r \in Clients :
       ReEvaluationReturns(r) =>
         /\ run[r].evTitle = run[r].searchTitle
         /\ currentSongState.title # run[r].searchTitle =>
              /\ currentSongState' = currentSongState
              /\ sent' = sent
    ]_vars

\* ------------------------------------------------------------------------
\* Properties of the evaluator when storage fails (under SpecFailing)
\* ------------------------------------------------------------------------
\* C26: when a storage read fails during Evaluator.evaluateSong, the call
\* still completes with a decision, whose shouldBlock is false, instead of
\* rejecting.
C26_ReadFailureStillDecides ==
  ev.readFailed => (ev.pc = "done" /\ ~ev.decision.shouldBlock)

\* C27: when the metadata lookup fails (no API key, a request that fails
\* or is answered with an error status, no channel found),
\* YouTubeAPI.getArtistDetails gives null and the resolution goes on: the
\* resolver is called for the artist with no details, and no setFailed call
\* is made at that step; a run calls setFailed only on what the resolver
\* gave.
C27_LookupFailureDegrades ==
  [][\A r \in Clients :
       /\ \A l \in ResolveLookups(run[r].q) :
            (YtSettles(r, l) /\ LookupFails(l)) =>
              /\ getArtistDetails(l) = Resolved(NoDetails)
              /\ run'[r].pc = "mistral"
              /\ CallsResolver(r)
              /\ run'[r].q = run[r].q
              /\ run'[r].ytDetails = NoDetails
              /\ call' = call
              /\ search_cache' = search_cache
       /\ (call'[r].op = "setFailed" /\ call[r].op # "setFailed") =>
            run[r].pc = "mistral"
    ]_vars

\* the resolver has been called with no details while the entry of the
\* query is pending
C27_Witness ==
  \E r \in Clients :
    /\ run[r].pc = "mistral"
    /\ run[r].mistralCalled
    /\ run[r].ytDetails = NoDetails
    /\ call[r].op = "setPending"
    /\ search_cache[run[r].q].state = "pending"

\* ------------------------------------------------------------------------
\* Frame of the evaluator (under SpecEval)
\* ------------------------------------------------------------------------
\* C28: Evaluator.evaluateSong never writes: whatever the input and the
\* stage that decides, the Artists list, the Songs list and the search
\* cache are after the call what they were before it.  (The steps that
\* leave a returned evaluation on record are the calls of evaluateSong: a
\* store operation clears the record.)
C28_EvaluationWritesNothing ==
  [][ev'.pc = "done" =>
       /\ artists' = artists
       /\ songs' = songs
       /\ search_cache' = search_cache
    ]_vars

\* an evaluation has returned from the artist stage over stored artists and
\* songs
C28_Witness ==
  /\ ev.pc = "done"
  /\ ev.decision.step \in {"ARTIST", "PENDING_SEARCH"}
  /\ Len(artists) = MaxArtists
  /\ songs # <<>>

\* ------------------------------------------------------------------------
\* Properties of the enforcement on the tab (under SpecTab)
\* ------------------------------------------------------------------------
\* nothing is left for the worker or the content script to do
Quiescent ==
  /\ \A j \in 1..MaxEvents : job[j].pc = "idle"
  /\ \A r \in Clients :
       /\ run[r].pc \in {"idle", "known", "skipped", "failed", "added"}
       /\ call[r].pc = "done"
  /\ timers = {}
  /\ tab.handled = sent

\* C29: every blocked decision of mode STRICT for the song playing ends
\* with the song both disliked and skipped on the tab, after the first
\* evaluation and after a re-evaluation alike: once the worker has sent
\* DISLIKE_SONG for such a decision and all there is to do is done, the
\* song has been disliked and the next button clicked.
C29_StrictBlockDislikesAndSkips ==
  (Quiescent /\ "DISLIKE_SONG" \in sent) => (tab.disliked /\ tab.skipped)

\* ------------------------------------------------------------------------
\* Properties of the song matcher (under SpecEval)
\* ------------------------------------------------------------------------
\* the answers of checkSongMatch over the titles and artist strings of the
\* evaluations, on the given lists
SongMatches(songList, artistList) ==
  {<<t, a>> \in Titles \X ArtistStrings :
     checkSongMatch(t, a, songList, artistList)}

\* C30: checkSongMatch reports a match exactly for the (title, artist
\* string) pairs held by the Songs collection, whatever the Artists
\* collection holds: a step that leaves the Songs collection as it is leaves
\* every answer of checkSongMatch as it is.
C30_SongMatchIgnoresArtists ==
  [][songs' = songs =>
       SongMatches(songs', artists') = SongMatches(songs, artists)]_vars

\* ------------------------------------------------------------------------
\* Properties of normalizeArtist (under SpecNormalize)
\* ------------------------------------------------------------------------
\* C31: normalizeArtist returns the same string for artist strings that
\* differ only in letter case, in leading, trailing or repeated whitespace,
\* or in a trailing or parenthesized feat / ft / featuring clause, and the
\* empty string for the empty input.
C31_SpellingsNormalizeAlike ==
  norm.called =>
    /\ norm.ofVariant = norm.ofBase
    /\ norm.base = <<>> => norm.ofBase = <<>>

\* ------------------------------------------------------------------------
\* Properties of concurrent storage writes (under Spec)
\* ------------------------------------------------------------------------
\* the step at which the write of client c's updateSearchCacheEntry takes
\* effect
CacheWriteLands(c) == call[c].pc = "upd_write" /\ call'[c].pc = "done"

\* C32: a completed cache write for a query is never undone by a cache
\* write for a different query: the write of an updateSearchCacheEntry for
\* query q2 leaves the stored entry of every other query as it is, so that
\* after interleaved updates of q and q2 both entries are stored.
C32_CacheWriteKeepsOtherQueries ==
  [][\A c \in Clients :
       CacheWriteLands(c) =>
         \A q \in Queries \ {call[c].q} : search_cache'[q] = search_cache[q]]_vars

\* the step at which the saveArtists of run r's addArtist takes effect
ArtistWriteLands(r) == run[r].pc = "saveArtists" /\ run'[r].pc # "saveArtists"

\* the names of the records of an artist list
StoredNames(list) == {normalizeArtist(list[i].name) : i \in 1..Len(list)}

\* C33: no artist record is lost under concurrency: the write of an
\* addArtist keeps every record stored by then, so that after two interleaved
\* addArtist calls for different normalized names the list holds both.
C33_ArtistWriteKeepsRecords ==
  [][\A r \in Clients :
       ArtistWriteLands(r) => StoredNames(artists) \subseteq StoredNames(artists')]_vars

\* ------------------------------------------------------------------------
\* Properties of the enforcement by the service worker (under SpecResolve)
\* ------------------------------------------------------------------------
\* the step at which the evaluation of SONG_CHANGED message j returns and
\* its handler runs
EvaluationReturns(j) == job[j].pc = "eval" /\ job'[j].pc = "idle"

\* message j was for another song than the one playing now
Superseded(j) ==
  currentSongState.title # job[j].title
    \/ currentSongState.artist # job[j].artist

\* C34: the outcome of the initial evaluation of a SONG_CHANGED is applied
\* only to the song it was computed for: an evaluation that returns after a
\* later SONG_CHANGED for another song neither sets currentSongState.status
\* nor sends a command to the tab.
C34_StaleEvaluationNotApplied ==
  [][\A j \in 1..MaxEvents :
       (EvaluationReturns(j) /\ Superseded(j)) =>
         /\ currentSongState'.status = currentSongState.status
         /\ sent' = sent]_vars

\* the evaluation of message j returns with a blocking decision
BlockedReturn(j) ==
  EvaluationReturns(j) /\ currentSongState'.status = "blocked"

\* the retry t queued with setTimeout fires at this step
RetryRuns(t) == t \in timers /\ t \notin timers'

LiveChain(l) == page.loop[l].pc \in {"wait", "verify", "skip"}

\* chain l, started earlier, takes a step
LoopActs(l) == LiveChain(l) /\ page'.loop[l] # page.loop[l]

\* C36: every dislike enforcement loop terminates: a chain whose retry
\* fires while the title playing differs from the one captured when the
\* chain started ends there; a chain queues no further retry once more than
\* 60 s have elapsed since it started; and a chain that ends (title changed,
\* dislike confirmed, or timed out) leaves enforcementState.active false.
C36_EnforcementLoopStops ==
  [][\A l \in 1..MaxCommands :
       /\ (/\ LoopActs(l)
           /\ page.loop[l].pc = "wait"
           /\ page.title # page.loop[l].title) => page'.loop[l].pc = "done"
       /\ (/\ LoopActs(l)
           /\ now - page.loop[l].started > ENFORCE_TIMEOUT) =>
            page'.loop[l].pc # "wait"
       /\ (LoopActs(l) /\ page'.loop[l].pc = "done") =>
            ~page'.enforcementState.active]_vars

\* C37: at most one dislike enforcement chain is live at any time in the
\* content script: a command received while the enforcement is active
\* starts no second chain, so the dislike button is not clicked twice for
\* one song.
C37_OneLiveChain ==
  /\ Cardinality({l \in 1..MaxCommands : LiveChain(l)}) <= 1
  /\ page.clicks <= 1

\* ------------------------------------------------------------------------
\* Properties of the choice among candidate identities (under SpecMatch)
\* ------------------------------------------------------------------------
\* the lower-cased trimmed artist name
MatchTarget == trim(toLowerCase(picked.artistName))

\* the place of a canonical name in the priority order: equal to the
\* target, equal to the target followed by ' - topic', starting with the
\* target, none of these
MatchRank(name) ==
  IF name = MatchTarget THEN 1
  ELSE IF name = MatchTarget \o <<" ", "-", " ", "topic">> THEN 2
  ELSE IF StartsWith(name, MatchTarget) THEN 3
  ELSE 4

\* names[k] is the first of the names of the best rank there is
IsFirstBest(names, k) ==
  /\ \A i \in 1..Len(names) : MatchRank(names[k]) <= MatchRank(names[i])
  /\ \A i \in 1..(k - 1) : MatchRank(names[i]) > MatchRank(names[k])

\* searchArtist has returned for a reply with several candidates
SeveralPicked == picked.called /\ Len(picked.candidates) >= 2

\* C38 as stated: of several candidates searchArtist returns the one chosen
\* in the order: canonical name equal to the lower-cased trimmed artist
\* name, else equal to that name followed by ' - topic', else starting with
\* that name, else the first candidate.
C38_OrderOnCanonicalNames ==
  SeveralPicked =>
    \E k \in 1..Len(picked.candidates) :
      /\ IsFirstBest([i \in 1..Len(picked.candidates) |->
                        picked.candidates[i].canonicalName], k)
      /\ picked.result = picked.candidates[k]

\* C38, amended: of several candidates searchArtist returns the one chosen
\* in the order: lower-cased canonical name equal to the lower-cased trimmed
\* artist name, else equal to that name followed by ' - topic', else starting
\* with that name, else the first candidate.
C38_OrderOnLowerCasedNames ==
  SeveralPicked =>
    \E k \in 1..Len(picked.candidates) :
      /\ IsFirstBest([i \in 1..Len(picked.candidates) |->
                        toLowerCase(picked.candidates[i].canonicalName)], k)
      /\ picked.result = picked.candidates[k]

\* the topic channel, listed last, is returned for a reply whose first
\* candidate starts with the name and whose second matches nothing
C38_Witness ==
  /\ picked.called
  /\ Len(picked.candidates) = MaxCandidates
  /\ MatchRank(toLowerCase(picked.candidates[1].canonicalName)) = 3
  /\ MatchRank(toLowerCase(picked.candidates[2].canonicalName)) = 4
  /\ MatchRank(toLowerCase(picked.result.canonicalName)) = 2
  /\ picked.result = picked.candidates[MaxCandidates]

====
